---------------------------- MODULE Spec2Model ----------------------------
(***************************************************************************)
(* A model of the vectorized execution core of the PromQL engine: the      *)
(* duplicate-label check, the vector-vector binary operator, the           *)
(* vector-scalar binary operator, the scalar() and absent() function       *)
(* operators.  Every operator is driven through its Series() and Next()    *)
(* methods by a harness whose children are stubs returning bounded,        *)
(* well-formed series lists and step batches.                              *)
(*                                                                         *)
(* Go slices and IDs are 0-based; TLA+ sequences are 1-based, so series    *)
(* number i of the code is element i+1 of the sequence that models it.     *)
(***************************************************************************)
EXTENDS Integers, Sequences, FiniteSets, TLC

VARIABLES
    oper,       \* which operator the harness has constructed
    child,      \* the child stubs: their series lists and step cursor
    d,          \* duplicateLabelCheckOperator: once, p, c
    vec,        \* vectorOperator: its matching, series, output map, join buckets
    mir,        \* a second vectorOperator, run on the same children swapped
    fn,         \* the operator of the function package or the vector-scalar one
    last,       \* the last call made on the operator: method, inputs, result
    run         \* the calls in flight: where each goroutine stands, the channels

vars == <<oper, child, d, vec, mir, fn, last, run>>

-----------------------------------------------------------------------------
(* Bounds of the model. *)

\* The longest time, in all, the calls of one telemetry add up.
MaxTime == 5

\* Steps in the range of a query: the child stubs return them in batches of
\* any lengths.
MaxSteps == 2
\* Longest batch of the wide child stub of the duplicate check: as many
\* steps as a mask word has bits.
WideBatch == 64

\* Width of the uint64 mask words of duplicateLabelCheckOperator.c.
WordBits == 64

-----------------------------------------------------------------------------
(* Sequence helpers. *)

Range(s) == {s[i] : i \in DOMAIN s}

\* The elements of a set of naturals in ascending order.
RECURSIVE SortedSeq(_)
SortedSeq(S) ==
    IF S = {} THEN <<>>
    ELSE LET m == CHOOSE x \in S : \A y \in S : x <= y
         IN <<m>> \o SortedSeq(S \ {m})

\* All sequences over S of length 0..n.
SeqsUpTo(S, n) == UNION {[1..k -> S] : k \in 0..n}

-----------------------------------------------------------------------------
(* Label sets.  A label set maps every label name to a value; the empty    *)
(* string is "label not present", as in Prometheus.                        *)

MetricName == "__name__"
LabelNames == {MetricName, "x", "y", "q"}

EmptyLabels == [n \in LabelNames |-> ""]

Lbl(name, x, y) == [n \in LabelNames |->
    IF n = MetricName THEN name ELSE IF n = "x" THEN x ELSE IF n = "y" THEN y ELSE ""]

\* labels.Labels.Hash(): a 64-bit hash of the label set.  The hash is taken
\* value by value; the values "c1" and "c2" stand for two different strings
\* on which the hash collides, every other value hashes to itself.
HashVal(v) == IF v \in {"c1", "c2"} THEN "c" ELSE v
Hash(ls) == [n \in LabelNames |-> HashVal(ls[n])]

-----------------------------------------------------------------------------
(* Step vectors (model.StepVector): a timestamp and two pairs of parallel  *)
(* arrays.                                                                 *)

StepVector(t, sids, samples, hids, hists) ==
    [T |-> t, SampleIDs |-> sids, Samples |-> samples,
     HistogramIDs |-> hids, Histograms |-> hists]

\* A step of the duplicate check's child: float samples of the series in ids.
FloatStep(t, ids) ==
    StepVector(t, SortedSeq(ids), [k \in 1..Cardinality(ids) |-> [n |-> 1, d |-> 1]], <<>>, <<>>)

\* The result of a call.
RetBatch(b) == [kind |-> "batch", batch |-> b, series |-> <<>>]
RetSeries(s) == [kind |-> "series", batch |-> <<>>, series |-> s]
RetEOF == [kind |-> "eof", batch |-> <<>>, series |-> <<>>]
RetErr(e) == [kind |-> e, batch |-> <<>>, series |-> <<>>]

NoCall == [method |-> "none", in |-> <<>>, res |-> RetEOF]

\* No call is in flight: every call is made after the one before returned.
NoCalls == [calls |-> <<>>]

\* The value of the variable of an operator the harness has not constructed.
NoOperator == [once |-> FALSE]

-----------------------------------------------------------------------------
(* float64 values.  A value is the exact fraction n/d in lowest terms with  *)
(* d > 0; d = 0 is a value that is not finite: 0/0 is NaN, 1/0 and -1/0 are  *)
(* the infinities.  The operands the harness feeds are small integers or    *)
(* NaN, so no result is ever rounded.                                       *)

RECURSIVE GCD(_, _)
GCD(a, b) == IF b = 0 THEN a ELSE GCD(b, a % b)

Abs(a) == IF a < 0 THEN -a ELSE a
Sign(a) == IF a > 0 THEN 1 ELSE IF a < 0 THEN -1 ELSE 0

Frac(n, dd) ==
    IF dd = 0 THEN [n |-> Sign(n), d |-> 0]
    ELSE LET g == GCD(Abs(n), Abs(dd))
         IN [n |-> Sign(dd) * (n \div g), d |-> Abs(dd) \div g]

F(k) == [n |-> k, d |-> 1]
NaN == [n |-> 0, d |-> 0]
IsNaN(a) == a.d = 0 /\ a.n = 0
IsFinite(a) == a.d > 0

\* Arithmetic on finite operands; NaN with anything is NaN.
FAdd(a, b) == IF IsFinite(a) /\ IsFinite(b) THEN Frac(a.n * b.d + b.n * a.d, a.d * b.d) ELSE NaN
FSub(a, b) == IF IsFinite(a) /\ IsFinite(b) THEN Frac(a.n * b.d - b.n * a.d, a.d * b.d) ELSE NaN
FMul(a, b) == IF IsFinite(a) /\ IsFinite(b) THEN Frac(a.n * b.n, a.d * b.d) ELSE NaN
FDiv(a, b) == IF IsFinite(a) /\ IsFinite(b) THEN Frac(a.n * b.d, a.d * b.n) ELSE NaN

\* Comparisons: every comparison with NaN is false, except !=.
FEq(a, b) == IsFinite(a) /\ IsFinite(b) /\ a = b
FLss(a, b) == IsFinite(a) /\ IsFinite(b) /\ a.n * b.d < b.n * a.d

(* histogram.FloatHistogram, reduced to its Count; nil is a value of its own. *)
NilHist == [nil |-> TRUE, count |-> F(0)]
Hist(c) == [nil |-> FALSE, count |-> c]

HistMul(h, f) == Hist(FMul(h.count, f))
HistDiv(h, f) == Hist(FDiv(h.count, f))
HistAdd(h, g) == Hist(FAdd(h.count, g.count))
HistSub(h, g) == Hist(FSub(h.count, g.count))
HistEquals(h, g) == FEq(h.count, g.count)

-----------------------------------------------------------------------------
(* labels.Builder *)

Del(ls, names) == [n \in LabelNames |-> IF n \in names THEN "" ELSE ls[n]]
Keep(ls, names) == [n \in LabelNames |-> IF n \in names THEN ls[n] ELSE ""]
Set(ls, name, v) == [ls EXCEPT ![name] = v]

-----------------------------------------------------------------------------
(* The binary operators of the parser that the model evaluates. *)

ArithmeticOps == {"ADD", "SUB", "MUL", "DIV"}
ComparisonOps == {"EQLC", "NEQ", "GTR", "LSS", "GTE", "LTE"}
SetOps == {"LAND", "LOR", "LUNLESS"}

\* shouldDropMetricName: true for the arithmetic operators, and for the
\* comparison operators when returnBool is set.
shouldDropMetricName(opType, returnBool) ==
    opType \in ArithmeticOps \/ (opType \in ComparisonOps /\ returnBool)

\* The result of the kernel: value, histogram, keep, and the annotation it
\* returns as an error ("" is nil).
KernelRes(f, h, keep, err) == [f |-> f, h |-> h, keep |-> keep, err |-> err]
Incompatible == "IncompatibleTypesInBinOp"

FloatCompare(op, lhs, rhs) ==
    CASE op = "EQLC" -> FEq(lhs, rhs)
      [] op = "NEQ" -> ~FEq(lhs, rhs)
      [] op = "GTR" -> FLss(rhs, lhs)
      [] op = "LSS" -> FLss(lhs, rhs)
      [] op = "GTE" -> FLss(rhs, lhs) \/ FEq(lhs, rhs)
      [] op = "LTE" -> FLss(lhs, rhs) \/ FEq(lhs, rhs)

vectorElemBinop(op, lhs, rhs, hlhs, hrhs) ==
    CASE hlhs.nil /\ hrhs.nil ->
            (CASE op = "ADD" -> KernelRes(FAdd(lhs, rhs), NilHist, TRUE, "")
               [] op = "SUB" -> KernelRes(FSub(lhs, rhs), NilHist, TRUE, "")
               [] op = "MUL" -> KernelRes(FMul(lhs, rhs), NilHist, TRUE, "")
               [] op = "DIV" -> KernelRes(FDiv(lhs, rhs), NilHist, TRUE, "")
               [] op \in ComparisonOps -> KernelRes(lhs, NilHist, FloatCompare(op, lhs, rhs), ""))
      [] hlhs.nil /\ ~hrhs.nil ->
            (CASE op = "MUL" -> KernelRes(F(0), HistMul(hrhs, lhs), TRUE, "")
               [] OTHER -> KernelRes(F(0), NilHist, FALSE, Incompatible))
      [] ~hlhs.nil /\ hrhs.nil ->
            (CASE op = "MUL" -> KernelRes(F(0), HistMul(hlhs, rhs), TRUE, "")
               [] op = "DIV" -> KernelRes(F(0), HistDiv(hlhs, rhs), TRUE, "")
               [] OTHER -> KernelRes(F(0), NilHist, FALSE, Incompatible))
      [] ~hlhs.nil /\ ~hrhs.nil ->
            (CASE op = "ADD" -> KernelRes(F(0), HistAdd(hlhs, hrhs), TRUE, "")
               [] op = "SUB" -> KernelRes(F(0), HistSub(hlhs, hrhs), TRUE, "")
               [] op = "EQLC" -> KernelRes(F(0), hlhs, HistEquals(hlhs, hrhs), "")
               [] op = "NEQ" -> KernelRes(F(0), hlhs, ~HistEquals(hlhs, hrhs), "")
               [] OTHER -> KernelRes(F(0), NilHist, FALSE, Incompatible))

-----------------------------------------------------------------------------
(* Step vector construction (model.StepVector). *)

EmptyStep(t) == StepVector(t, <<>>, <<>>, <<>>, <<>>)

AppendSample(step, id, v) ==
    [step EXCEPT !.SampleIDs = Append(@, id), !.Samples = Append(@, v)]

AppendHistogram(step, id, h) ==
    [step EXCEPT !.HistogramIDs = Append(@, id), !.Histograms = Append(@, h)]

\* A loop over the indices i..n of a slice, body(acc, i) giving the next acc;
\* the next acc is a value before the loop goes on.
RECURSIVE FoldIdx(_, _, _, _)
FoldIdx(body(_, _), n, i, acc) ==
    IF i > n THEN acc
    ELSE CHOOSE r \in {FoldIdx(body, n, i + 1, v) : v \in {body(acc, i)}} : TRUE

-----------------------------------------------------------------------------
(* vectorOperator: the vector-vector binary operator. *)

\* What NewVectorOperator is given besides its children: the operator type,
\* the parser.VectorMatching and returnBool.
Query(opType, card, on, matchingLabels, include, returnBool) ==
    [opType |-> opType, card |-> card, on |-> on, matchingLabels |-> matchingLabels,
     include |-> include, returnBool |-> returnBool]

\* signatureFunc: the hash of the labels named (on) or of all labels but
\* __name__ and the ones named (ignoring).  xxhash is taken as injective on
\* the label sets of the model, so the signature is the projected label set.
sigFunc(q, ls) ==
    IF q.on THEN Keep(ls, q.matchingLabels)
    ELSE Del(ls, q.matchingLabels \cup {MetricName})

cantorPairing(hc, lc) == ((hc + lc) * (hc + lc + 1)) \div 2 + lc

\* The four steps of resultMetric on the builder b.
dropNameNever(q, b) == b
dropName(q, b) ==
    IF shouldDropMetricName(q.opType, q.returnBool) THEN Del(b, {MetricName}) ELSE b

keepMatching(q, b) ==
    IF q.card = "OneToOne"
    THEN (IF q.on THEN Keep(b, q.matchingLabels) ELSE Del(b, q.matchingLabels))
    ELSE b

\* Set(ln, v) for a value of lowCard, Del(ln) for none: the label becomes
\* lowCard's.
setInclude(q, b, lowCard) ==
    [n \in LabelNames |-> IF n \in q.include THEN lowCard[n] ELSE b[n]]

dropNameOfBool(q, b) == IF q.returnBool THEN Del(b, {MetricName}) ELSE b

resultMetric(q, highCard, lowCard) ==
    dropNameOfBool(q, setInclude(q, keepMatching(q, dropName(q, highCard)), lowCard))

\* joinHelper
NewJoinHelper == [seen |-> {}, ls |-> <<>>, n |-> 0]

\* joinHelper.append: the helper after the call and the index returned.
appendHashedOffByOne(h, ls, hash) ==
    IF \E e \in h.seen : e.hash = hash
    THEN [h |-> h, n |-> (CHOOSE e \in h.seen : e.hash = hash).n]
    ELSE [h |-> [seen |-> h.seen \cup {[hash |-> hash, n |-> h.n]},
                 ls |-> Append(h.ls, ls), n |-> h.n + 1],
          n |-> h.n + 1]
appendHashed(h, ls, hash) ==
    IF \E e \in h.seen : e.hash = hash
    THEN [h |-> h, n |-> (CHOOSE e \in h.seen : e.hash = hash).n]
    ELSE [h |-> [seen |-> h.seen \cup {[hash |-> hash, n |-> h.n]},
                 ls |-> Append(h.ls, ls), n |-> h.n + 1],
          n |-> h.n]

joinHelperAppend(h, ls) == appendHashed(h, ls, Hash(ls))

\* lcHashToSeriesIDs[sig]: the low-card series of a signature, in order.
lcHashToSeriesIDs(q, lowCardSide, sig) ==
    SortedSeq({i \in 0..(Len(lowCardSide) - 1) : sigFunc(q, lowCardSide[i + 1]) = sig})

\* The Store calls of initJoinTables in the order the loops make them: the
\* two arguments of cantorPairing and the label set appended.
RECURSIVE matchItems(_, _, _, _)
matchesOf(q, highCardSide, lowCardSide, i, lcs) ==
    [k \in 1..Len(lcs) |->
        [hc |-> i + 1, lc |-> lcs[k] + 1,
         ls |-> IF q.opType = "LAND" THEN highCardSide[i + 1]
                ELSE resultMetric(q, highCardSide[i + 1], lowCardSide[lcs[k] + 1])]]

matchItems(q, highCardSide, lowCardSide, i) ==
    IF i >= Len(highCardSide) THEN <<>>
    ELSE matchesOf(q, highCardSide, lowCardSide, i,
                   lcHashToSeriesIDs(q, lowCardSide, sigFunc(q, highCardSide[i + 1])))
            \o matchItems(q, highCardSide, lowCardSide, i + 1)

hcItems(highCardSide) ==
    [k \in 1..Len(highCardSide) |-> [hc |-> k, lc |-> 0, ls |-> highCardSide[k]]]
lcItems(lowCardSide) ==
    [k \in 1..Len(lowCardSide) |-> [hc |-> 0, lc |-> k, ls |-> lowCardSide[k]]]

outputItemsHighOnly(q, highCardSide, lowCardSide) ==
    CASE q.opType \in {"LOR", "LUNLESS"} -> hcItems(highCardSide)
      [] OTHER -> matchItems(q, highCardSide, lowCardSide, 0)
outputItems(q, highCardSide, lowCardSide) ==
    CASE q.opType = "LOR" -> hcItems(highCardSide) \o lcItems(lowCardSide)
      [] q.opType = "LUNLESS" -> hcItems(highCardSide)
      [] OTHER -> matchItems(q, highCardSide, lowCardSide, 0)

MapStore(m, k, v) == [x \in DOMAIN m \cup {k} |-> IF x = k THEN v ELSE m[x]]
MapLoad(m, k) == IF k \in DOMAIN m THEN m[k] ELSE 0

NewJoinBucket == [ats |-> -1, bts |-> -1, sid |-> 0, hid |-> 0, val |-> F(0), hval |-> NilHist]

NewVectorOperator(q) ==
    [q |-> q, once |-> FALSE, lhsSampleIDs |-> <<>>, rhsSampleIDs |-> <<>>,
     series |-> <<>>, outputMap |-> <<>>,
     lcJoinBuckets |-> <<>>, hcJoinBuckets |-> <<>>, buckets |-> <<>>]

\* initJoinTables.  A *joinBucket is modelled by the signature it is stored
\* under in joinBucketsByHash; o.buckets holds the buckets themselves.
\* outputMap.Store(cantorPairing(hc, lc), n) with n the index h.append gave.
storeItem(acc, item, r) ==
    [h |-> r.h, m |-> MapStore(acc.m, cantorPairing(item.hc, item.lc), r.n)]

\* The series loop of initJoinTables: the joinHelper and the output map.
initSeries(items) ==
    FoldIdx(LAMBDA acc, k : storeItem(acc, items[k], joinHelperAppend(acc.h, items[k].ls)),
            Len(items), 1, [h |-> NewJoinHelper, m |-> <<>>])

joinTables(o, highCardSide, lowCardSide, st) ==
    [o EXCEPT !.series = st.h.ls,
              !.outputMap = st.m,
              !.lcJoinBuckets = [k \in DOMAIN lowCardSide |-> sigFunc(o.q, lowCardSide[k])],
              !.hcJoinBuckets = [k \in DOMAIN highCardSide |-> sigFunc(o.q, highCardSide[k])],
              !.buckets = [sg \in {sigFunc(o.q, highCardSide[k]) : k \in DOMAIN highCardSide}
                                    \cup {sigFunc(o.q, lowCardSide[k]) : k \in DOMAIN lowCardSide}
                            |-> NewJoinBucket]]

initJoinTables(o, highCardSide, lowCardSide) ==
    joinTables(o, highCardSide, lowCardSide,
               initSeries(outputItems(o.q, highCardSide, lowCardSide)))

\* init under initOnce, given what lhs.Series and rhs.Series returned.
vecInit(o, lhsSeries, rhsSeries) ==
    IF o.once THEN o
    ELSE initJoinTables([o EXCEPT !.once = TRUE, !.lhsSampleIDs = lhsSeries, !.rhsSampleIDs = rhsSeries],
                        IF o.q.card = "OneToMany" THEN rhsSeries ELSE lhsSeries,
                        IF o.q.card = "OneToMany" THEN lhsSeries ELSE rhsSeries)

outputSeriesID(o, hc, lc) == MapLoad(o.outputMap, cantorPairing(hc, lc))

computeBinaryPairingNoSwap(q, lhs, rhs, hlhs, hrhs) ==
    vectorElemBinop(q.opType, lhs, rhs, hlhs, hrhs)
computeBinaryPairing(q, lhs, rhs, hlhs, hrhs) ==
    vectorElemBinop(q.opType,
                    IF q.card = "OneToMany" THEN rhs ELSE lhs,
                    IF q.card = "OneToMany" THEN lhs ELSE rhs,
                    IF q.card = "OneToMany" THEN hrhs ELSE hlhs,
                    IF q.card = "OneToMany" THEN hlhs ELSE hrhs)

\* The state of one execBinaryOperation call: the join buckets, the step
\* being built, the error returned ("" is nil) and the annotations added to
\* the warnings of the context.
ExecState(b, step) == [b |-> b, step |-> step, err |-> "", warns |-> {}]

ErrManyToMany == "ManyToManyMatch"
ErrImplicitManyToOne == "ImplicitManyToOne"

\* The test of execBinaryAnd on the bucket of an lhs sample.
andMatchedEver(jp, ts) == jp.ats # -1
andMatched(jp, ts) == jp.ats = ts

execBinaryAnd(o, lhs, rhs) ==
    LET ts == lhs.T
        b1 == FoldIdx(LAMBDA b, i :
                        LET sampleID == rhs.SampleIDs[i]
                            jp == o.lcJoinBuckets[sampleID + 1]
                        IN [b EXCEPT ![jp].sid = sampleID, ![jp].ats = ts],
                      Len(rhs.SampleIDs), 1, o.buckets)
        step == FoldIdx(LAMBDA st, i :
                        LET sampleID == lhs.SampleIDs[i]
                            jp == b1[o.hcJoinBuckets[sampleID + 1]]
                        IN IF andMatched(jp, ts)
                           THEN AppendSample(st, outputSeriesID(o, sampleID + 1, jp.sid + 1), lhs.Samples[i])
                           ELSE st,
                      Len(lhs.SampleIDs), 1, EmptyStep(ts))
    IN ExecState(b1, step)

execBinaryOrEverMarked(o, lhs, rhs) ==
    LET ts == lhs.T
        s1 == FoldIdx(LAMBDA st, i :
                        LET sampleID == lhs.SampleIDs[i]
                            jp == o.hcJoinBuckets[sampleID + 1]
                        IN [st EXCEPT !.b[jp].ats = ts,
                                      !.step = AppendSample(@, outputSeriesID(o, sampleID + 1, 0), lhs.Samples[i])],
                      Len(lhs.SampleIDs), 1, ExecState(o.buckets, EmptyStep(ts)))
    IN FoldIdx(LAMBDA st, i :
                        LET sampleID == rhs.SampleIDs[i]
                            jp == st.b[o.lcJoinBuckets[sampleID + 1]]
                        IN IF jp.ats < 0
                           THEN [st EXCEPT !.step = AppendSample(@, outputSeriesID(o, 0, sampleID + 1), rhs.Samples[i])]
                           ELSE st,
               Len(rhs.SampleIDs), 1, s1)
execBinaryOr(o, lhs, rhs) ==
    LET ts == lhs.T
        s1 == FoldIdx(LAMBDA st, i :
                        LET sampleID == lhs.SampleIDs[i]
                            jp == o.hcJoinBuckets[sampleID + 1]
                        IN [st EXCEPT !.b[jp].ats = ts,
                                      !.step = AppendSample(@, outputSeriesID(o, sampleID + 1, 0), lhs.Samples[i])],
                      Len(lhs.SampleIDs), 1, ExecState(o.buckets, EmptyStep(ts)))
    IN FoldIdx(LAMBDA st, i :
                        LET sampleID == rhs.SampleIDs[i]
                            jp == st.b[o.lcJoinBuckets[sampleID + 1]]
                        IN IF jp.ats # ts
                           THEN [st EXCEPT !.step = AppendSample(@, outputSeriesID(o, 0, sampleID + 1), rhs.Samples[i])]
                           ELSE st,
               Len(rhs.SampleIDs), 1, s1)

execBinaryUnless(o, lhs, rhs) ==
    LET ts == lhs.T
        b1 == FoldIdx(LAMBDA b, i :
                        LET jp == o.lcJoinBuckets[rhs.SampleIDs[i] + 1]
                        IN [b EXCEPT ![jp].ats = ts],
                      Len(rhs.SampleIDs), 1, o.buckets)
        step == FoldIdx(LAMBDA st, i :
                        LET sampleID == lhs.SampleIDs[i]
                            jp == b1[o.hcJoinBuckets[sampleID + 1]]
                        IN IF jp.ats # ts
                           THEN AppendSample(st, outputSeriesID(o, sampleID + 1, 0), lhs.Samples[i])
                           ELSE st,
                      Len(lhs.SampleIDs), 1, EmptyStep(ts))
    IN ExecState(b1, step)

\* The shortcut of execBinaryArithmetic: nothing to pair on the high-card side.
hcShortcut(hcs) == Len(hcs.Samples) = 0

\* An error return of execBinaryArithmetic: model.StepVector{} and the error.
ExecFail(st, err) == [st EXCEPT !.step = EmptyStep(0), !.err = err]

\* The loops of execBinaryArithmetic over the low-card samples and histograms.
lcSampleLoop(o, lcs, ts, st0) ==
    FoldIdx(LAMBDA st, i :
                IF st.err # "" THEN st
                ELSE IF st.b[o.lcJoinBuckets[lcs.SampleIDs[i] + 1]].ats = ts
                     THEN ExecFail(st, ErrManyToMany)
                     ELSE [st EXCEPT !.b[o.lcJoinBuckets[lcs.SampleIDs[i] + 1]] =
                                        [@ EXCEPT !.sid = lcs.SampleIDs[i],
                                                  !.val = lcs.Samples[i],
                                                  !.ats = ts]],
            Len(lcs.SampleIDs), 1, st0)

lcHistogramLoop(o, lcs, ts, st0) ==
    FoldIdx(LAMBDA st, i :
                IF st.err # "" THEN st
                ELSE IF st.b[o.lcJoinBuckets[lcs.HistogramIDs[i] + 1]].ats = ts
                     THEN ExecFail(st, ErrManyToMany)
                     ELSE [st EXCEPT !.b[o.lcJoinBuckets[lcs.HistogramIDs[i] + 1]] =
                                        [@ EXCEPT !.hid = lcs.HistogramIDs[i],
                                                  !.hval = lcs.Histograms[i],
                                                  !.ats = ts]],
            Len(lcs.HistogramIDs), 1, st0)

lcLoops(o, lcs, ts, st0) == lcHistogramLoop(o, lcs, ts, lcSampleLoop(o, lcs, ts, st0))

\* The check for an implicit many-to-one match on a high-card row.
implicitManyToOne(q, jp, ts) == jp.bts = ts /\ q.card = "OneToOne"

\* A high-card float sample paired with the bucket jp of its signature, r
\* being what computeBinaryPairing returned for it.
hcSample(o, st, key, ts, sampleID, jp, r) ==
    IF jp.ats # ts THEN st
    ELSE IF implicitManyToOne(o.q, jp, ts) THEN ExecFail(st, ErrImplicitManyToOne)
    ELSE IF ~o.q.returnBool /\ ~r.keep
         THEN [st EXCEPT !.b[key].bts = ts,
                         !.warns = IF r.err # "" THEN @ \cup {r.err} ELSE @]
    ELSE [st EXCEPT !.b[key].bts = ts,
                    !.warns = IF r.err # "" THEN @ \cup {r.err} ELSE @,
                    !.step = AppendSample(@, outputSeriesID(o, sampleID + 1, jp.sid + 1),
                                          IF o.q.returnBool
                                          THEN (IF r.keep THEN F(1) ELSE F(0))
                                          ELSE r.f)]

\* A high-card histogram paired with the bucket jp of its signature.
hcHistogram(o, st, key, ts, hID, jp, r) ==
    IF jp.ats # ts THEN st
    ELSE IF implicitManyToOne(o.q, jp, ts) THEN ExecFail(st, ErrImplicitManyToOne)
    ELSE [st EXCEPT !.b[key].bts = ts,
                    !.warns = IF r.err # "" THEN @ \cup {r.err} ELSE @,
                    !.step = AppendHistogram(@, outputSeriesID(o, hID + 1, jp.sid + 1), r.h)]

hcSampleAt(o, st, ts, sampleID, v, jp) ==
    hcSample(o, st, o.hcJoinBuckets[sampleID + 1], ts, sampleID, jp,
             computeBinaryPairing(o.q, v, jp.val, NilHist, NilHist))

hcHistogramAt(o, st, ts, hID, h, jp) ==
    hcHistogram(o, st, o.hcJoinBuckets[hID + 1], ts, hID, jp,
                computeBinaryPairing(o.q, F(0), F(0), h, jp.hval))

\* The loops of execBinaryArithmetic over the high-card samples and histograms.
hcHistogramLoop(o, hcs, ts, st0) ==
    FoldIdx(LAMBDA st, i :
                IF st.err # "" THEN st
                ELSE hcHistogramAt(o, st, ts, hcs.HistogramIDs[i], hcs.Histograms[i],
                                   st.b[o.hcJoinBuckets[hcs.HistogramIDs[i] + 1]]),
            Len(hcs.HistogramIDs), 1, st0)

hcSampleLoop(o, hcs, ts, st0) ==
    FoldIdx(LAMBDA st, i :
                IF st.err # "" THEN st
                ELSE hcSampleAt(o, st, ts, hcs.SampleIDs[i], hcs.Samples[i],
                                st.b[o.hcJoinBuckets[hcs.SampleIDs[i] + 1]]),
            Len(hcs.SampleIDs), 1, st0)

hcLoops(o, hcs, ts, st0) == hcHistogramLoop(o, hcs, ts, hcSampleLoop(o, hcs, ts, st0))

\* execBinaryArithmetic once the sides are told apart.
pairSides(o, hcs, lcs, ts, st0) ==
    IF hcShortcut(hcs) THEN st0
    ELSE hcLoops(o, hcs, ts, lcLoops(o, lcs, ts, st0))

execBinaryArithmetic(o, lhs, rhs) ==
    IF o.q.card \notin {"ManyToOne", "OneToOne", "OneToMany"}
    THEN [ExecState(o.buckets, EmptyStep(lhs.T)) EXCEPT !.err = "UnexpectedCardinality"]
    ELSE pairSides(o,
                   IF o.q.card = "OneToMany" THEN rhs ELSE lhs,
                   IF o.q.card = "OneToMany" THEN lhs ELSE rhs,
                   lhs.T, ExecState(o.buckets, EmptyStep(lhs.T)))

execBinaryOperation(o, lhs, rhs) ==
    CASE o.q.opType = "LAND" -> execBinaryAnd(o, lhs, rhs)
      [] o.q.opType = "LOR" -> execBinaryOr(o, lhs, rhs)
      [] o.q.opType = "LUNLESS" -> execBinaryUnless(o, lhs, rhs)
      [] OTHER -> execBinaryArithmetic(o, lhs, rhs)

\* One turn of the loop of Next: the step st that execBinaryOperation gave
\* is appended, or its error ends the loop.
batchAppend(a, st) ==
    [b |-> st.b, batch |-> IF st.err = "" THEN Append(a.batch, st.step) ELSE a.batch,
     err |-> st.err, warns |-> a.warns \cup st.warns]

batchLoop(o, lhs, rhs) ==
    FoldIdx(LAMBDA a, i :
                IF a.err # "" \/ i > Len(rhs) THEN a
                ELSE batchAppend(a, execBinaryOperation([o EXCEPT !.buckets = a.b], lhs[i], rhs[i])),
            Len(lhs), 1, [b |-> o.buckets, batch |-> <<>>, err |-> "", warns |-> {}])

\* What a call has given back to the pools of its children: so many steps of
\* each batch through PutStepVector, and the batches through PutVectors.
Puts(lhsSteps, rhsSteps, batches) ==
    [lhsSteps |-> lhsSteps, rhsSteps |-> rhsSteps, lhsBatch |-> batches, rhsBatch |-> batches]

\* The steps and batches Next has put back after its loop, which an error of
\* execBinaryOperation leaves at once.
vecPuts(acc, lhs, rhs) ==
    IF acc.err # "" THEN Puts(Len(acc.batch), Len(acc.batch), FALSE)
    ELSE Puts(Len(lhs), IF Len(rhs) < Len(lhs) THEN Len(rhs) ELSE Len(lhs), TRUE)

nextResult(o, acc, lhs, rhs) ==
    [o |-> [o EXCEPT !.buckets = acc.b],
     res |-> IF acc.err # "" THEN RetErr(acc.err) ELSE RetBatch(acc.batch),
     warns |-> acc.warns,
     puts |-> vecPuts(acc, lhs, rhs)]

\* Next after initOnce, given the batches lhs.Next and rhs.Next returned: the
\* operator afterwards, the result, and the warnings added to the context.
vecNext(o, lhs, rhs) ==
    IF Len(lhs) = 0 \/ Len(rhs) = 0
    THEN [o |-> o, res |-> RetEOF, warns |-> {}, puts |-> Puts(0, 0, FALSE)]
    ELSE nextResult(o, batchLoop(o, lhs, rhs), lhs, rhs)

\* What a call of Series or Next on a child returned: a value, or an error
\* ("" is nil).
ChildOK(val) == [val |-> val, err |-> ""]
ChildErr(err) == [val |-> <<>>, err |-> err]

\* ctx.Err() of a cancelled context.
ErrCtx == "ContextCanceled"

\* A runtime panic: an index out of the range of a slice.
Panic == "panic"

\* What a method returns with the operator it leaves behind, and the calls
\* it has made on its children.
Outcome(o, res, pulled) == [o |-> o, res |-> res, warns |-> {}, puts |-> Puts(0, 0, FALSE),
                            pulled |-> pulled]

withPulled(r, pulled) ==
    [o |-> r.o, res |-> r.res, warns |-> r.warns, puts |-> r.puts, pulled |-> pulled]

\* initOnce, given what lhs.Series and rhs.Series return: init looks at the
\* error of rhs first; sync.Once is spent whether init fails or not, and the
\* error reaches the first caller only.
vecInitOnce(o, lhsSeries, rhsSeries) ==
    IF o.once THEN [o |-> o, err |-> ""]
    ELSE IF rhsSeries.err # "" THEN [o |-> [o EXCEPT !.once = TRUE], err |-> rhsSeries.err]
    ELSE IF lhsSeries.err # "" THEN [o |-> [o EXCEPT !.once = TRUE], err |-> lhsSeries.err]
    ELSE [o |-> vecInit(o, lhsSeries.val, rhsSeries.val), err |-> ""]

\* The children init asks for their series.
vecInitPulls(o) == IF o.once THEN {} ELSE {"lhs.Series", "rhs.Series"}

\* Series, r being what initOnce returned.
vecSeriesAfter(r, pulled) ==
    Outcome(r.o, IF r.err # "" THEN RetErr(r.err) ELSE RetSeries(r.o.series), pulled)

vecSeriesCall(o, lhsSeries, rhsSeries) ==
    vecSeriesAfter(vecInitOnce(o, lhsSeries, rhsSeries), vecInitPulls(o))

\* A step indexes lcJoinBuckets or hcJoinBuckets with an ID they do not hold.
outOfRange(ids, buckets) == \E id \in Range(ids) : (id + 1) \notin DOMAIN buckets

stepPanics(o, lhs, rhs, hcs, lcs) ==
    IF o.q.opType \in SetOps
    THEN outOfRange(rhs.SampleIDs, o.lcJoinBuckets) \/ outOfRange(lhs.SampleIDs, o.hcJoinBuckets)
    ELSE /\ ~hcShortcut(hcs)
         /\ \/ outOfRange(lcs.SampleIDs \o lcs.HistogramIDs, o.lcJoinBuckets)
            \/ outOfRange(hcs.SampleIDs \o hcs.HistogramIDs, o.hcJoinBuckets)

batchPanics(o, lhs, rhs) ==
    \E i \in DOMAIN lhs \cap DOMAIN rhs :
        stepPanics(o, lhs[i], rhs[i],
                   IF o.q.card = "OneToMany" THEN rhs[i] ELSE lhs[i],
                   IF o.q.card = "OneToMany" THEN lhs[i] ELSE rhs[i])

\* Next after initOnce and the two pulls: the error of rhs, else the error
\* of lhs, else the batch.
vecNextPulled(o, lhsNext, rhsNext) ==
    IF rhsNext.err # "" THEN Outcome(o, RetErr(rhsNext.err), {"lhs.Next", "rhs.Next"})
    ELSE IF lhsNext.err # "" THEN Outcome(o, RetErr(lhsNext.err), {"lhs.Next", "rhs.Next"})
    ELSE IF Len(lhsNext.val) > 0 /\ Len(rhsNext.val) > 0 /\ batchPanics(o, lhsNext.val, rhsNext.val)
         THEN Outcome(o, RetErr(Panic), {"lhs.Next", "rhs.Next"})
         ELSE withPulled(vecNext(o, lhsNext.val, rhsNext.val), {"lhs.Next", "rhs.Next"})

vecNextAfter(r, pulled, lhsNext, rhsNext) ==
    IF r.err # "" THEN Outcome(r.o, RetErr(r.err), pulled)
    ELSE withPulled(vecNextPulled(r.o, lhsNext, rhsNext), pulled \cup {"lhs.Next", "rhs.Next"})

\* Next under a context that is cancelled or not.
vecNextCall(o, cancelled, lhsSeries, rhsSeries, lhsNext, rhsNext) ==
    IF cancelled THEN Outcome(o, RetErr(ErrCtx), {})
    ELSE vecNextAfter(vecInitOnce(o, lhsSeries, rhsSeries), vecInitPulls(o), lhsNext, rhsNext)

-----------------------------------------------------------------------------
(* function.scalarOperator: scalar(v) *)

\* Series returns nil.
scalarSeries == <<>>

scalarStepAtZero(vector) ==
    AppendSample(EmptyStep(0), 0,
                 IF Len(vector.Samples) # 1 THEN NaN ELSE vector.Samples[1])
scalarStep(vector) ==
    AppendSample(EmptyStep(vector.T), 0,
                 IF Len(vector.Samples) # 1 THEN NaN ELSE vector.Samples[1])

\* Next, given what o.next.Next returned.
scalarNextOfFirst(in) ==
    IF Len(in) = 0 THEN RetEOF
    ELSE RetBatch([i \in DOMAIN in |->
                    AppendSample(EmptyStep(in[i].T), 0,
                                 IF Len(in[i].Samples) = 0 THEN NaN ELSE in[i].Samples[1])])
scalarNext(in) ==
    IF Len(in) = 0 THEN RetEOF ELSE RetBatch([i \in DOMAIN in |-> scalarStep(in[i])])

\* Series and Next under a context that is cancelled or not, given what
\* o.next.Next returns.
scalarSeriesCall(o) == Outcome(o, RetSeries(scalarSeries), {})

scalarNextCall(o, cancelled, in) ==
    IF cancelled THEN Outcome(o, RetErr(ErrCtx), {})
    ELSE IF in.err # "" THEN Outcome(o, RetErr(in.err), {"next.Next"})
    ELSE Outcome(o, scalarNext(in.val), {"next.Next"})

\* The steps and the batch Next has put back to the pool of o.next.
scalarPuts(in) == Puts(Len(in), 0, Len(in) > 0)

-----------------------------------------------------------------------------
(* absentOperator: absent(v) *)

\* funcExpr.Args[0]: its kind, and the matchers and filters of a selector.
Matcher(name, type, value) == [name |-> name, type |-> type, value |-> value]
Arg(kind, matchers, filters) == [kind |-> kind, matchers |-> matchers, filters |-> filters]

newAbsentOperator(funcExpr) == [once |-> FALSE, funcExpr |-> funcExpr, series |-> <<>>]

\* One turn of the loop of loadSeries over the matchers.
absentMatcherKeeping(acc, l) ==
    IF l.name = MetricName THEN acc
    ELSE IF l.type = "=" /\ l.name \notin acc.has
         THEN [b |-> Set(acc.b, l.name, l.value), has |-> acc.has \cup {l.name}]
         ELSE acc
absentMatcher(acc, l) ==
    IF l.name = MetricName THEN acc
    ELSE IF l.type = "=" /\ l.name \notin acc.has
         THEN [b |-> Set(acc.b, l.name, l.value), has |-> acc.has \cup {l.name}]
         ELSE [acc EXCEPT !.b = Del(@, {l.name})]

absentLabels(lm) ==
    FoldIdx(LAMBDA acc, i : absentMatcher(acc, lm[i]), Len(lm), 1,
            [b |-> EmptyLabels, has |-> {}]).b

absentLoadSeries(o) ==
    IF o.once THEN o
    ELSE [o EXCEPT !.once = TRUE,
                   !.series = IF o.funcExpr.kind \in {"VectorSelector", "MatrixSelector"}
                              THEN <<absentLabels(o.funcExpr.matchers \o o.funcExpr.filters)>>
                              ELSE <<EmptyLabels>>]

absentStepOfSamples(vector) ==
    IF Len(vector.Samples) = 0
    THEN AppendSample(EmptyStep(vector.T), 0, F(1))
    ELSE EmptyStep(vector.T)
absentStep(vector) ==
    IF Len(vector.Samples) = 0 /\ Len(vector.Histograms) = 0
    THEN AppendSample(EmptyStep(vector.T), 0, F(1))
    ELSE EmptyStep(vector.T)

\* Next after loadSeries, given what o.next.Next returned.
absentNext(vectors) ==
    IF Len(vectors) = 0 THEN RetEOF
    ELSE RetBatch([i \in DOMAIN vectors |-> absentStep(vectors[i])])

\* Series and Next under a context that is cancelled or not, given what
\* o.next.Next returns.
absentSeriesOf(o) == Outcome(o, RetSeries(o.series), {})
absentSeriesCall(o) == absentSeriesOf(absentLoadSeries(o))

absentNextCall(o, cancelled, vectors) ==
    IF cancelled THEN Outcome(o, RetErr(ErrCtx), {})
    ELSE IF vectors.err # "" THEN Outcome(absentLoadSeries(o), RetErr(vectors.err), {"next.Next"})
    ELSE Outcome(absentLoadSeries(o), absentNext(vectors.val), {"next.Next"})

\* The steps and the batch Next has put back to the pool of o.next.
absentPuts(vectors) == Puts(Len(vectors), 0, Len(vectors) > 0)

-----------------------------------------------------------------------------
(* binary.scalarOperator: the vector-scalar binary operator *)

ScalarSides == {"Both", "Left", "Right"}

\* newOperation(op, vectorBinOp): the value and whether it is kept.  With a
\* vector side a comparison gives the vector's operand, kept if it holds;
\* between two scalars it gives 1 or 0.
floatOp(op, operands, valIdx, bothScalars) ==
    CASE op = "ADD" -> [val |-> FAdd(operands[1], operands[2]), keep |-> TRUE]
      [] op = "SUB" -> [val |-> FSub(operands[1], operands[2]), keep |-> TRUE]
      [] op = "MUL" -> [val |-> FMul(operands[1], operands[2]), keep |-> TRUE]
      [] op = "DIV" -> [val |-> FDiv(operands[1], operands[2]), keep |-> TRUE]
      [] op \in ComparisonOps ->
            IF bothScalars
            THEN [val |-> IF FloatCompare(op, operands[1], operands[2]) THEN F(1) ELSE F(0),
                  keep |-> TRUE]
            ELSE [val |-> operands[valIdx + 1],
                  keep |-> FloatCompare(op, operands[1], operands[2])]

\* getHistogramFloatOperation(op, scalarSide): nil where the pair has no
\* result.
histOp(op, scalarSide, h, scalar) ==
    CASE op = "MUL" -> HistMul(h, scalar)
      [] op = "DIV" /\ scalarSide = "Right" -> HistDiv(h, scalar)
      [] OTHER -> NilHist

\* extlabels.DropMetricName
DropMetricName(lbls) == Del(lbls, {MetricName})

NewScalar(op, scalarSide, returnBool) ==
    [once |-> FALSE, series |-> <<>>, opType |-> op, scalarSide |-> scalarSide,
     operandValIdx |-> IF scalarSide = "Left" THEN 1 ELSE 0,
     returnBool |-> returnBool, bothScalars |-> scalarSide = "Both"]

\* One turn of the loop of loadSeries.
loadedLabels(o, lbls) ==
    IF lbls # EmptyLabels
    THEN (IF shouldDropMetricName(o.opType, o.returnBool) THEN DropMetricName(lbls) ELSE lbls)
    ELSE lbls

\* loadSeries under seriesOnce, given what o.next.Series returned.
loadSeries(o, vectorSeries) ==
    IF o.once THEN o
    ELSE [o EXCEPT !.once = TRUE,
                   !.series = [i \in DOMAIN vectorSeries |-> loadedLabels(o, vectorSeries[i])]]

getOperandsScalarRight(o, v, scalar) == <<v, scalar>>
getOperands(o, v, scalar) ==
    IF o.scalarSide = "Left" THEN <<scalar, v>> ELSE <<v, scalar>>

\* The sample loop of Next: r is what floatOp returned for sample id.
binSampleFiltering(o, step, id, r) ==
    IF ~r.keep THEN step
    ELSE AppendSample(step, id, IF o.returnBool /\ ~o.bothScalars THEN F(1) ELSE r.val)
binSample(o, step, id, r) ==
    IF o.returnBool
    THEN AppendSample(step, id,
                      IF ~o.bothScalars THEN (IF r.keep THEN F(1) ELSE F(0)) ELSE r.val)
    ELSE IF ~r.keep THEN step
    ELSE AppendSample(step, id, r.val)

\* The histogram loop of Next: val is what histOp returned for histogram id.
binHistogram(step, id, val) ==
    IF ~val.nil THEN AppendHistogram(step, id, val) ELSE step

scalarValAt(scalarIn, v) ==
    IF Len(scalarIn) >= v /\ Len(scalarIn[v].Samples) > 0 THEN scalarIn[v].Samples[1] ELSE NaN

binSamples(o, vector, scalarVal, step0) ==
    FoldIdx(LAMBDA step, i :
                binSample(o, step, vector.SampleIDs[i],
                          floatOp(o.opType, getOperands(o, vector.Samples[i], scalarVal),
                                  o.operandValIdx, o.bothScalars)),
            Len(vector.Samples), 1, step0)

binHistograms(o, vector, scalarVal, step0) ==
    FoldIdx(LAMBDA step, i :
                binHistogram(step, vector.HistogramIDs[i],
                             histOp(o.opType, o.scalarSide, vector.Histograms[i], scalarVal)),
            Len(vector.HistogramIDs), 1, step0)

binStep(o, vector, scalarVal) ==
    binHistograms(o, vector, scalarVal, binSamples(o, vector, scalarVal, EmptyStep(vector.T)))

\* Next after loadSeries, given what o.next.Next and o.scalar.Next returned.
binNext(o, in, scalarIn) ==
    RetBatch([v \in DOMAIN in |-> binStep(o, in[v], scalarValAt(scalarIn, v))])

\* seriesOnce.Do(loadSeries), given what o.next.Series returns: sync.Once is
\* spent whether loadSeries fails or not.
binLoadOnce(o, vectorSeries) ==
    IF o.once THEN [o |-> o, err |-> ""]
    ELSE IF vectorSeries.err # "" THEN [o |-> [o EXCEPT !.once = TRUE], err |-> vectorSeries.err]
    ELSE [o |-> loadSeries(o, vectorSeries.val), err |-> ""]

binLoadPulls(o) == IF o.once THEN {} ELSE {"next.Series"}

binSeriesAfter(r, pulled) ==
    Outcome(r.o, IF r.err # "" THEN RetErr(r.err) ELSE RetSeries(r.o.series), pulled)

binSeriesCall(o, vectorSeries) == binSeriesAfter(binLoadOnce(o, vectorSeries), binLoadPulls(o))

\* Next after o.next.Next has returned a batch, r being what loadSeries under
\* seriesOnce returned.
binNextAfter(r, pulled, in, scalarIn) ==
    IF r.err # "" THEN Outcome(r.o, RetErr(r.err), pulled)
    ELSE IF scalarIn.err # "" THEN Outcome(r.o, RetErr(scalarIn.err), pulled \cup {"scalar.Next"})
    ELSE Outcome(r.o, binNext(r.o, in, scalarIn.val), pulled \cup {"scalar.Next"})

\* Next under a context that is cancelled or not.
binNextCall(o, cancelled, vectorSeries, in, scalarIn) ==
    IF cancelled THEN Outcome(o, RetErr(ErrCtx), {})
    ELSE IF in.err # "" THEN Outcome(o, RetErr(in.err), {"next.Next"})
    ELSE IF Len(in.val) = 0 THEN Outcome(o, RetEOF, {"next.Next"})
    ELSE binNextAfter(binLoadOnce(o, vectorSeries), binLoadPulls(o) \cup {"next.Next"},
                      in.val, scalarIn)

\* The steps and batches Next has put back to the pools of o.next and
\* o.scalar; nothing is pulled from o.scalar when o.next is at its end.
binPuts(in, scalarIn) ==
    IF Len(in) = 0 THEN Puts(0, 0, FALSE) ELSE Puts(Len(in), Len(scalarIn), TRUE)

-----------------------------------------------------------------------------
(* duplicateLabelCheckOperator *)

\* uint64(2) << i as the set of bits that are set: bit i+1, or nothing once
\* the bit is shifted out of the word.
ShlStuck(i) == {1}
Shl2(i) == IF i + 1 < WordBits THEN {i + 1} ELSE {}

\* The loop of init over the child's series: m maps a hash to the first index
\* that has it, p collects a pair for every later index with that hash.
RECURSIVE dupPairs(_, _, _, _)
dupPairs(series, i, m, p) ==
    IF i >= Len(series) THEN p
    ELSE LET h == Hash(series[i + 1])
         IN IF \E e \in m : e.h = h
            THEN LET j == (CHOOSE e \in m : e.h = h).i
                 IN dupPairs(series, i + 1, m, Append(p, [a |-> i, b |-> j]))
            ELSE dupPairs(series, i + 1, m \cup {[h |-> h, i |-> i]}, p)

NewDuplicateLabelCheck == [once |-> FALSE, p |-> <<>>, c |-> <<>>]

\* init: the body runs under sync.Once.
dupInit(dd, series) ==
    IF dd.once THEN dd
    ELSE [once |-> TRUE,
          p |-> dupPairs(series, 0, {}, <<>>),
          c |-> [k \in 1..Len(series) |-> {}]]

\* The three loops of Next over the mask words: clear the words of every
\* recorded pair, mark every sample at its batch position, leave the rest.
dupMarks(dd, in) ==
    LET paired == {dd.p[k].a : k \in DOMAIN dd.p} \cup {dd.p[k].b : k \in DOMAIN dd.p}
    IN [k \in DOMAIN dd.c |->
            (IF (k - 1) \in paired THEN {} ELSE dd.c[k])
            \cup UNION {Shl2(i - 1) : i \in {j \in DOMAIN in : (k - 1) \in Range(in[j].SampleIDs)}}]

dupCollides(c, p) ==
    \E k \in DOMAIN p : c[p[k].a + 1] \cap c[p[k].b + 1] # {}

\* Next after a successful init, given what d.next.Next returned.
dupNext(dd, in) ==
    IF Len(dd.p) > 0
    THEN LET c == dupMarks(dd, in)
         IN [d |-> [dd EXCEPT !.c = c],
             res |-> IF dupCollides(c, dd.p) THEN RetErr("ErrDuplicateLabelSet")
                     ELSE RetBatch(in)]
    ELSE [d |-> dd, res |-> RetBatch(in)]

\* init, given what d.next.Series returns: sync.Once is spent whether the
\* body fails or not.
dupInitOnce(dd, series) ==
    IF dd.once THEN [o |-> dd, err |-> ""]
    ELSE IF series.err # "" THEN [o |-> [dd EXCEPT !.once = TRUE], err |-> series.err]
    ELSE [o |-> dupInit(dd, series.val), err |-> ""]

dupInitPulls(dd) == IF dd.once THEN {} ELSE {"next.Series"}

\* Series, r being what init returned: the series are asked of the child
\* again.
dupSeriesAfter(r, series) ==
    IF r.err # "" THEN Outcome(r.o, RetErr(r.err), {"next.Series"})
    ELSE IF series.err # "" THEN Outcome(r.o, RetErr(series.err), {"next.Series"})
    ELSE Outcome(r.o, RetSeries(series.val), {"next.Series"})

dupSeriesCall(dd, first, series) == dupSeriesAfter(dupInitOnce(dd, first), series)

dupNextChecked(r, pulled) == Outcome(r.d, r.res, pulled)

dupNextAfter(r, pulled, in) ==
    IF r.err # "" THEN Outcome(r.o, RetErr(r.err), pulled)
    ELSE IF in.err # "" THEN Outcome(r.o, RetErr(in.err), pulled \cup {"next.Next"})
    ELSE IF Len(in.val) = 0 THEN Outcome(r.o, RetEOF, pulled \cup {"next.Next"})
    ELSE dupNextChecked(dupNext(r.o, in.val), pulled \cup {"next.Next"})

\* Next under a context that is cancelled or not.
dupNextCall(dd, cancelled, first, in) ==
    IF cancelled THEN Outcome(dd, RetErr(ErrCtx), {})
    ELSE dupNextAfter(dupInitOnce(dd, first), dupInitPulls(dd), in)

-----------------------------------------------------------------------------
(* The child stub of the duplicate check. *)

\* Label sets of the child: two that differ and collide, one more equal to
\* neither.
DupLabels == {Lbl("m", "c1", ""), Lbl("m", "c2", ""), Lbl("m", "1", "")}

IDs(series) == 0..(Len(series) - 1)

DupSeriesLists == SeqsUpTo(DupLabels, Cardinality(DupLabels))

\* Batches of n steps starting at step t, every step holding float samples of
\* any set of the series.
DupBatches(series, t, n) ==
    {[i \in 1..n |-> FloatStep(t + i - 1, f[i])] : f \in [1..n -> SUBSET IDs(series)]}

\* Batches of n steps of which only the last holds samples.
DupWideBatches(series, n) ==
    {[i \in 1..n |-> FloatStep(i - 1, IF i = n THEN S ELSE {})] : S \in SUBSET IDs(series)}

-----------------------------------------------------------------------------
(* The harness of the duplicate check. *)

NewChild(series) == [series |-> series, t |-> 0, done |-> FALSE]

InitDup ==
    /\ oper = "dup"
    /\ \E s \in DupSeriesLists : child = NewChild(s)
    /\ d = NewDuplicateLabelCheck
    /\ vec = NoOperator
    /\ mir = NoOperator
    /\ fn = NoOperator
    /\ last = NoCall
    /\ run = NoCalls

\* duplicateLabelCheckOperator.Series
DupSeries ==
    /\ oper = "dup"
    /\ d' = dupInit(d, child.series)
    /\ last' = [method |-> "Series", in |-> <<>>, res |-> RetSeries(child.series)]
    /\ UNCHANGED <<run, oper, child, vec, mir, fn>>

\* duplicateLabelCheckOperator.Next, the child returning a batch.
DupNext ==
    /\ oper = "dup"
    /\ ~child.done
    /\ \E n \in 1..(MaxSteps - child.t) : \E in \in DupBatches(child.series, child.t, n) :
        LET r == dupNext(dupInit(d, child.series), in)
        IN /\ d' = r.d
           /\ last' = [method |-> "Next", in |-> in, res |-> r.res]
           /\ child' = [child EXCEPT !.t = @ + n]
    /\ UNCHANGED <<run, oper, vec, mir, fn>>

\* duplicateLabelCheckOperator.Next, the child at its end.
DupNextEOF ==
    /\ oper = "dup"
    /\ ~child.done
    /\ d' = dupInit(d, child.series)
    /\ last' = [method |-> "Next", in |-> <<>>, res |-> RetEOF]
    /\ child' = [child EXCEPT !.done = TRUE]
    /\ UNCHANGED <<run, oper, vec, mir, fn>>

NextDup == DupSeries \/ DupNext \/ DupNextEOF

SpecDup == InitDup /\ [][NextDup]_vars

\* duplicateLabelCheckOperator.Next on the first batch of a child that
\* returns batches of up to WideBatch steps.
DupWideNext ==
    /\ oper = "dup"
    /\ child.t = 0
    /\ \E n \in 1..WideBatch : \E in \in DupWideBatches(child.series, n) :
        LET r == dupNext(dupInit(d, child.series), in)
        IN /\ d' = r.d
           /\ last' = [method |-> "Next", in |-> in, res |-> r.res]
           /\ child' = [child EXCEPT !.t = @ + n]
    /\ UNCHANGED <<run, oper, vec, mir, fn>>

SpecDupWide == InitDup /\ [][DupWideNext]_vars

-----------------------------------------------------------------------------
(* Claims about the duplicate-label check. *)

\* The last call was a Next of the duplicate check that pulled a batch.
DupPulled == oper = "dup" /\ last.method = "Next" /\ last.res.kind # "eof"

\* Series a and b of the child both have a sample in step i of the batch.
BothSampled(in, i, a, b) == {a, b} \subseteq Range(in[i].SampleIDs)

\* The child has exactly two series and their label sets have the same hash.
TwoColliding == Len(child.series) = 2 /\ Hash(child.series[1]) = Hash(child.series[2])

\* C1: for a child with two series of the same hash, a batch that holds a
\* step, at any batch position, in which both series have a sample makes
\* Next return ErrDuplicateLabelSet instead of the batch.
C1_DuplicateAlwaysDetected ==
    (DupPulled /\ TwoColliding /\ \E i \in DOMAIN last.in : BothSampled(last.in, i, 0, 1))
        => last.res.kind = "ErrDuplicateLabelSet"

\* C2: as long as no step of a batch holds samples of two series whose hashes
\* collide, Next returns the child's batch as it is, never
\* ErrDuplicateLabelSet; the two series may be sampled at different steps of
\* one batch, or in different batches.
C2_NoFalseDuplicate ==
    (DupPulled /\ \A i \in DOMAIN last.in : \A a, b \in IDs(child.series) :
            (a # b /\ Hash(child.series[a + 1]) = Hash(child.series[b + 1]))
                => ~BothSampled(last.in, i, a, b))
        => last.res = RetBatch(last.in)

\* Two colliding, unequal series, both sampled in one batch at different
\* steps, and the batch came through.
C2_Witness ==
    /\ DupPulled /\ TwoColliding /\ child.series[1] # child.series[2]
    /\ \E i, j \in DOMAIN last.in :
        /\ i # j
        /\ last.in[i].SampleIDs = <<0>>
        /\ last.in[j].SampleIDs = <<1>>
    /\ child.t = 2
    /\ last.res.kind = "batch"

\* The child has three series and their label sets have one hash.
ThreeColliding ==
    /\ Len(child.series) = 3
    /\ Hash(child.series[1]) = Hash(child.series[2])
    /\ Hash(child.series[2]) = Hash(child.series[3])

\* C33: of three or more series that share one label-set hash, whenever any
\* two, not only a pair with the first series of that hash, have samples in
\* one step of a batch, Next returns ErrDuplicateLabelSet.
C33_AnyPairDetected ==
    (DupPulled /\ ThreeColliding /\ \E i \in DOMAIN last.in : \E a, b \in IDs(child.series) :
            a # b /\ BothSampled(last.in, i, a, b))
        => last.res.kind = "ErrDuplicateLabelSet"

\* A pair with the first series of the hash is detected.
C33_PairWithFirst ==
    (DupPulled /\ ThreeColliding /\ \E i \in DOMAIN last.in : \E b \in IDs(child.series) :
            b # 0 /\ BothSampled(last.in, i, 0, b))
        => last.res.kind = "ErrDuplicateLabelSet"

\* C29: the mark 2 << i of a sample at batch position i is not zero and is
\* another one at every batch position the child can return, batches of 63
\* and more steps among them: after a Next that marked a batch, the word of
\* every sampled series holds the mark of each position it was sampled at,
\* and no two positions of the batch have one mark.
C29_MarkOfEveryPosition ==
    (DupPulled /\ Len(d.p) > 0) =>
        /\ \A i \in DOMAIN last.in : \A sid \in Range(last.in[i].SampleIDs) :
                Shl2(i - 1) # {} /\ Shl2(i - 1) \subseteq d.c[sid + 1]
        /\ \A i, j \in DOMAIN last.in : i # j => Shl2(i - 1) # Shl2(j - 1)

\* The marks of the batch positions below 63 are not zero and differ.
C29_MarkBelowWordSize ==
    (DupPulled /\ Len(d.p) > 0) =>
        /\ \A i \in DOMAIN last.in : \A sid \in Range(last.in[i].SampleIDs) :
                i < WordBits => (Shl2(i - 1) # {} /\ Shl2(i - 1) \subseteq d.c[sid + 1])
        /\ \A i, j \in DOMAIN last.in :
                (i # j /\ i < WordBits /\ j < WordBits) => Shl2(i - 1) # Shl2(j - 1)

-----------------------------------------------------------------------------
(* The child stubs of the vector operator.  A child has a list of series,   *)
(* each of floats or of native histograms; at every step any subset of its *)
(* series has a row.  The value of a row is fixed by the child, the series *)
(* and the step, so that no two rows of a query carry the same value twice *)
(* by accident of the stub.                                                *)

A1 == Lbl("a", "1", "")
A1Y == Lbl("a", "1", "Y")
A2 == Lbl("a", "2", "")
B1 == Lbl("b", "1", "")

NewVecChild(series, kinds, base) == [series |-> series, kinds |-> kinds, base |-> base, t |-> 0]

RowValue(c, id, t) == F(c.base + 2 * id + 10 * t)

\* The step of child c at step t in which the series in present have a row.
ChildStep(c, t, present) ==
    FoldIdx(LAMBDA step, k :
                IF (k - 1) \notin present THEN step
                ELSE IF c.kinds[k] = "float"
                     THEN AppendSample(step, k - 1, RowValue(c, k - 1, t))
                     ELSE AppendHistogram(step, k - 1, Hist(RowValue(c, k - 1, t))),
            Len(c.series), 1, EmptyStep(t))

\* The batches of n steps child c can return next.
ChildBatches(c, n) ==
    {[i \in 1..n |-> ChildStep(c, c.t + i - 1, p[i])] : p \in [1..n -> SUBSET IDs(c.series)]}

\* The lists of distinct label sets of L, in any order.
DistinctLists(L) ==
    {x \in SeqsUpTo(L, Cardinality(L)) : \A i, j \in DOMAIN x : i # j => x[i] # x[j]}

\* The sublists of a list, in its order.
SubLists(s) ==
    {[i \in 1..Cardinality(I) |-> s[SortedSeq(I)[i]]] : I \in SUBSET DOMAIN s}

\* Series lists: each series of a list is of floats or of histograms.
Typed(Lists) ==
    UNION {{[series |-> s, kinds |-> k] : k \in [DOMAIN s -> {"float", "hist"}]} : s \in Lists}

-----------------------------------------------------------------------------
(* The harness of the vector operator. *)

\* Series lists of floats.
Floats(Lists) == {[series |-> l, kinds |-> [i \in DOMAIN l |-> "float"]] : l \in Lists}

\* The series lists of the two children: one child has up to two series,
\* of one signature under on(x) or of two, the other has at most one.
PairLists == Typed(SubLists(<<A1, A1Y>>) \cup {<<A1, A2>>})
SingleLists == Typed({<<>>, <<A1>>, <<A2>>})
Sides == (PairLists \X SingleLists) \cup (SingleLists \X PairLists)

\* The query with its sides exchanged: A op group_right B is B op group_left A.
Mirror(q) ==
    [q EXCEPT !.card = IF @ = "OneToMany" THEN "ManyToOne"
                       ELSE IF @ = "ManyToOne" THEN "OneToMany" ELSE @]

\* The operator NewVectorOperator(q) over two fresh children.
InitVec(Queries, Children) ==
    /\ oper = "vector"
    /\ \E q \in Queries, c \in Children :
        /\ child = [lhs |-> NewVecChild(c[1].series, c[1].kinds, 1),
                    rhs |-> NewVecChild(c[2].series, c[2].kinds, 2)]
        /\ vec = NewVectorOperator(q)
    /\ d = NoOperator
    /\ mir = NoOperator
    /\ fn = NoOperator
    /\ last = NoCall
    /\ run = NoCalls

\* The same, and with it the operator NewVectorOperator(Mirror(q)) over the
\* same two children exchanged.
InitMirrored(Queries, Children) ==
    /\ oper = "vector"
    /\ \E q \in Queries, c \in Children :
        /\ child = [lhs |-> NewVecChild(c[1].series, c[1].kinds, 1),
                    rhs |-> NewVecChild(c[2].series, c[2].kinds, 2)]
        /\ vec = NewVectorOperator(q)
        /\ mir = [o |-> NewVectorOperator(Mirror(q)), res |-> RetEOF]
    /\ d = NoOperator
    /\ fn = NoOperator
    /\ last = NoCall
    /\ run = NoCalls

\* A query is over once Next has returned an error.
Running == last.res.kind \in {"eof", "series", "batch"}

\* Next has returned r on the batches lb and rb of the children.
Returned(lb, rb, r) ==
    /\ vec' = r.o
    /\ last' = [method |-> "Next", in |-> <<lb, rb>>, res |-> r.res, warns |-> r.warns,
                puts |-> r.puts]

\* The mirrored operator after the same call.
mirSeries(o) == [o |-> o, res |-> RetSeries(o.series)]
mirNext(r) == [o |-> r.o, res |-> r.res]

MirroredSeries ==
    mir' = IF mir = NoOperator THEN mir
           ELSE mirSeries(vecInit(mir.o, child.rhs.series, child.lhs.series))

MirroredNext(lb, rb) ==
    mir' = IF mir = NoOperator THEN mir
           ELSE mirNext(vecNext(vecInit(mir.o, child.rhs.series, child.lhs.series), rb, lb))

\* vectorOperator.Series
VecSeries ==
    /\ oper = "vector"
    /\ Running
    /\ vec' = vecInit(vec, child.lhs.series, child.rhs.series)
    /\ last' = [method |-> "Series", in |-> <<>>, res |-> RetSeries(vec'.series), warns |-> {}]
    /\ MirroredSeries
    /\ UNCHANGED <<run, oper, child, d, fn>>

\* vectorOperator.Next, both children returning a batch of n steps.
VecNext ==
    /\ oper = "vector"
    /\ Running
    /\ \E n \in 1..(MaxSteps - child.lhs.t) :
       \E lb \in ChildBatches(child.lhs, n), rb \in ChildBatches(child.rhs, n) :
        /\ Returned(lb, rb, vecNext(vecInit(vec, child.lhs.series, child.rhs.series), lb, rb))
        /\ MirroredNext(lb, rb)
        /\ child' = [child EXCEPT !.lhs.t = @ + n, !.rhs.t = @ + n]
    /\ UNCHANGED <<run, oper, d, fn>>

\* vectorOperator.Next, both children at their end.
VecNextEOF ==
    /\ oper = "vector"
    /\ Running
    /\ child.lhs.t = MaxSteps
    /\ last.in # <<<<>>, <<>>>>
    /\ Returned(<<>>, <<>>, vecNext(vecInit(vec, child.lhs.series, child.rhs.series), <<>>, <<>>))
    /\ MirroredNext(<<>>, <<>>)
    /\ UNCHANGED <<run, oper, child, d, fn>>

NextVec == VecSeries \/ VecNext \/ VecNextEOF

-----------------------------------------------------------------------------
(* The harness of scalar(v), absent(v) and the vector-scalar operator: one  *)
(* vector child, and for the vector-scalar operator a scalar child, which   *)
(* has one series and at most one sample in a step.                         *)

\* A call on the operator of the function package.
Called(method, in, res) == [method |-> method, in |-> in, res |-> res, warns |-> {}]

InitFn(kind, Operators, Lists) ==
    /\ oper = kind
    /\ \E o \in Operators, l \in Lists :
        /\ fn = o
        /\ child = [next |-> NewVecChild(l.series, l.kinds, 1),
                    scalar |-> NewVecChild(<<EmptyLabels>>, <<"float">>, 2)]
    /\ d = NoOperator
    /\ vec = NoOperator
    /\ mir = NoOperator
    /\ last = NoCall
    /\ run = NoCalls

\* function.scalarOperator.Series
ScalarSeries ==
    /\ oper = "scalar"
    /\ last' = Called("Series", <<>>, RetSeries(scalarSeries))
    /\ UNCHANGED <<run, oper, child, d, vec, mir, fn>>

\* function.scalarOperator.Next
ScalarNext ==
    /\ oper = "scalar"
    /\ \E n \in 1..(MaxSteps - child.next.t) : \E in \in ChildBatches(child.next, n) :
        /\ last' = Called("Next", <<in>>, scalarNext(in))
        /\ child' = [child EXCEPT !.next.t = @ + n]
    /\ UNCHANGED <<run, oper, d, vec, mir, fn>>

ScalarNextEOF ==
    /\ oper = "scalar"
    /\ child.next.t = MaxSteps
    /\ last' = Called("Next", <<<<>>>>, scalarNext(<<>>))
    /\ UNCHANGED <<run, oper, child, d, vec, mir, fn>>

\* absentOperator.Series
AbsentSeries ==
    /\ oper = "absent"
    /\ fn' = absentLoadSeries(fn)
    /\ last' = Called("Series", <<>>, RetSeries(fn'.series))
    /\ UNCHANGED <<run, oper, child, d, vec, mir>>

\* absentOperator.Next
AbsentNext ==
    /\ oper = "absent"
    /\ \E n \in 1..(MaxSteps - child.next.t) : \E in \in ChildBatches(child.next, n) :
        /\ last' = Called("Next", <<in>>, absentNext(in))
        /\ child' = [child EXCEPT !.next.t = @ + n]
    /\ fn' = absentLoadSeries(fn)
    /\ UNCHANGED <<run, oper, d, vec, mir>>

AbsentNextEOF ==
    /\ oper = "absent"
    /\ child.next.t = MaxSteps
    /\ fn' = absentLoadSeries(fn)
    /\ last' = Called("Next", <<<<>>>>, absentNext(<<>>))
    /\ UNCHANGED <<run, oper, child, d, vec, mir>>

\* binary.scalarOperator.Series
BinSeries ==
    /\ oper = "binary"
    /\ fn' = loadSeries(fn, child.next.series)
    /\ last' = Called("Series", <<>>, RetSeries(fn'.series))
    /\ UNCHANGED <<run, oper, child, d, vec, mir>>

\* binary.scalarOperator.Next
BinNext ==
    /\ oper = "binary"
    /\ \E n \in 1..(MaxSteps - child.next.t) :
       \E in \in ChildBatches(child.next, n), scalarIn \in ChildBatches(child.scalar, n) :
        /\ fn' = loadSeries(fn, child.next.series)
        /\ last' = Called("Next", <<in, scalarIn>>, binNext(fn', in, scalarIn))
        /\ child' = [child EXCEPT !.next.t = @ + n, !.scalar.t = @ + n]
    /\ UNCHANGED <<run, oper, d, vec, mir>>

\* binary.scalarOperator.Next, the vector child at its end: nothing is loaded
\* and the scalar child is not pulled.
BinNextEOF ==
    /\ oper = "binary"
    /\ child.next.t = MaxSteps
    /\ last' = Called("Next", <<<<>>, <<>>>>, RetEOF)
    /\ UNCHANGED <<run, oper, child, d, vec, mir, fn>>

NextFn ==
    \/ ScalarSeries \/ ScalarNext \/ ScalarNextEOF
    \/ AbsentSeries \/ AbsentNext \/ AbsentNextEOF
    \/ BinSeries \/ BinNext \/ BinNextEOF

\* absent(a{x="1"}), absent(a{x="1", x!="2", y="Y"}), absent(a{x="1"}[5m])
\* with a filter on x, absent(a{x!="2", x="1"}), absent(sum(a)).
AbsentArgs ==
    {Arg("VectorSelector", <<Matcher(MetricName, "=", "a"), Matcher("x", "=", "1")>>, <<>>),
     Arg("VectorSelector", <<Matcher(MetricName, "=", "a"), Matcher("x", "!=", "2"),
                             Matcher("x", "=", "1")>>, <<>>),
     Arg("VectorSelector", <<Matcher(MetricName, "=", "a"), Matcher("x", "=", "1"),
                             Matcher("x", "!=", "2"), Matcher("y", "=", "Y")>>, <<>>),
     Arg("MatrixSelector", <<Matcher(MetricName, "=", "a"), Matcher("x", "=", "1")>>,
                           <<Matcher("x", "=", "2")>>),
     Arg("Aggregation", <<>>, <<>>)}

\* v - s, v > s, s > bool v, s > bool s.
BinOperators ==
    {NewScalar("SUB", "Right", FALSE), NewScalar("GTR", "Right", FALSE),
     NewScalar("GTR", "Left", TRUE), NewScalar("GTR", "Both", TRUE)}

InitScalar == InitFn("scalar", {NoOperator}, PairLists)
InitAbsent == InitFn("absent", {newAbsentOperator(a) : a \in AbsentArgs}, PairLists)
InitBin == InitFn("binary", BinOperators, PairLists)

-----------------------------------------------------------------------------
(* The harness of the operators under failure: the context of a call may be *)
(* cancelled, and a call on a child may return an error.  mir keeps what    *)
(* the Series calls have returned so far, and whether the query is over.    *)

\* What a Series call on child c, and a Next call, can return.
SeriesOf(c, name) == {ChildOK(c.series), ChildErr(name \o ".Series failed")}

BatchSizes(c) == IF c.t >= MaxSteps THEN {0} ELSE 1..(MaxSteps - c.t)

NextOf(c, name) ==
    {ChildOK(b) : b \in UNION {ChildBatches(c, n) : n \in BatchSizes(c)}}
        \cup {ChildErr(name \o ".Next failed")}

DupNextOf(c) ==
    {ChildOK(b) : b \in UNION {DupBatches(c.series, c.t, n) : n \in BatchSizes(c)}}
        \cup {ChildErr("next.Next failed")}

\* The query goes on after a call that the context cancelled or whose
\* initialisation failed; it is over after any other error.
Fatal(res) ==
    res.kind \notin {"eof", "series", "batch", ErrCtx,
                     "lhs.Series failed", "rhs.Series failed", "next.Series failed"}

NoHistory == [returned |-> {}, over |-> FALSE]

Recorded(method, cancelled, in, r) ==
    /\ last' = [method |-> method, in |-> in, res |-> r.res, warns |-> r.warns,
                puts |-> r.puts, ctx |-> cancelled, pulled |-> r.pulled]
    /\ mir' = [returned |-> IF method = "Series" THEN mir.returned \cup {r.res} ELSE mir.returned,
               over |-> mir.over \/ Fatal(r.res)]

\* The child after a call that pulled the batch next from it, or did not.
Advanced(c, name, next, r) ==
    IF name \in r.pulled /\ next.err = "" THEN [c EXCEPT !.t = @ + Len(next.val)] ELSE c

VecDone(method, cancelled, lhsNext, rhsNext, r) ==
    /\ vec' = r.o
    /\ Recorded(method, cancelled, <<lhsNext.val, rhsNext.val>>, r)
    /\ child' = [child EXCEPT !.lhs = Advanced(@, "lhs.Next", lhsNext, r),
                              !.rhs = Advanced(@, "rhs.Next", rhsNext, r)]
    /\ UNCHANGED <<oper, d, fn>>

DupDone(method, cancelled, in, r) ==
    /\ d' = r.o
    /\ Recorded(method, cancelled, in.val, r)
    /\ child' = Advanced(child, "next.Next", in, r)
    /\ UNCHANGED <<oper, vec, fn>>

FnDone(method, cancelled, in, scalarIn, r) ==
    /\ fn' = r.o
    /\ Recorded(method, cancelled, <<in.val, scalarIn.val>>, r)
    /\ child' = [child EXCEPT !.next = Advanced(@, "next.Next", in, r),
                              !.scalar = Advanced(@, "scalar.Next", scalarIn, r)]
    /\ UNCHANGED <<oper, d, vec>>

NotPulled == ChildOK(<<>>)

\* What the calls on a child return that a method makes only if asked.
Asked(asked, results) == IF asked THEN results ELSE {NotPulled}

FailVecSeries ==
    /\ UNCHANGED run
    /\ oper = "vector" /\ last.res.kind # Panic
    /\ \E cancelled \in BOOLEAN :
       \E ls \in Asked(~vec.once, SeriesOf(child.lhs, "lhs")),
          rs \in Asked(~vec.once, SeriesOf(child.rhs, "rhs")) :
        VecDone("Series", cancelled, NotPulled, NotPulled, vecSeriesCall(vec, ls, rs))

FailVecNext ==
    /\ UNCHANGED run
    /\ oper = "vector" /\ ~mir.over
    /\ \E cancelled \in BOOLEAN :
       \E ls \in Asked(~cancelled /\ ~vec.once, SeriesOf(child.lhs, "lhs")),
          rs \in Asked(~cancelled /\ ~vec.once, SeriesOf(child.rhs, "rhs")) :
       \E ln \in Asked(~cancelled, NextOf(child.lhs, "lhs")),
          rn \in Asked(~cancelled, NextOf(child.rhs, "rhs")) :
        /\ Len(ln.val) = Len(rn.val) \/ ln.err # "" \/ rn.err # ""
        /\ VecDone("Next", cancelled, ln, rn, vecNextCall(vec, cancelled, ls, rs, ln, rn))

FailDupSeries ==
    /\ UNCHANGED run
    /\ oper = "dup"
    /\ \E cancelled \in BOOLEAN :
       \E first \in Asked(~d.once, SeriesOf(child, "next")), again \in SeriesOf(child, "next") :
        DupDone("Series", cancelled, NotPulled, dupSeriesCall(d, first, again))

FailDupNext ==
    /\ UNCHANGED run
    /\ oper = "dup" /\ ~mir.over
    /\ \E cancelled \in BOOLEAN :
       \E first \in Asked(~cancelled /\ ~d.once, SeriesOf(child, "next")),
          in \in Asked(~cancelled, DupNextOf(child)) :
        DupDone("Next", cancelled, in, dupNextCall(d, cancelled, first, in))

FailBinSeries ==
    /\ UNCHANGED run
    /\ oper = "binary"
    /\ \E cancelled \in BOOLEAN : \E vs \in Asked(~fn.once, SeriesOf(child.next, "next")) :
        FnDone("Series", cancelled, NotPulled, NotPulled, binSeriesCall(fn, vs))

FailBinNext ==
    /\ UNCHANGED run
    /\ oper = "binary" /\ ~mir.over
    /\ \E cancelled \in BOOLEAN :
       \E vs \in Asked(~cancelled /\ ~fn.once, SeriesOf(child.next, "next")) :
       \E in \in Asked(~cancelled, NextOf(child.next, "next")),
          scalarIn \in Asked(~cancelled, NextOf(child.scalar, "scalar")) :
        /\ Len(in.val) = Len(scalarIn.val) \/ in.err # "" \/ scalarIn.err # ""
        /\ FnDone("Next", cancelled, in, scalarIn, binNextCall(fn, cancelled, vs, in, scalarIn))

FailAbsentSeries ==
    /\ UNCHANGED run
    /\ oper = "absent"
    /\ \E cancelled \in BOOLEAN :
        FnDone("Series", cancelled, NotPulled, NotPulled, absentSeriesCall(fn))

FailAbsentNext ==
    /\ UNCHANGED run
    /\ oper = "absent" /\ ~mir.over
    /\ \E cancelled \in BOOLEAN : \E in \in Asked(~cancelled, NextOf(child.next, "next")) :
        FnDone("Next", cancelled, in, NotPulled, absentNextCall(fn, cancelled, in))

FailScalarSeries ==
    /\ UNCHANGED run
    /\ oper = "scalar"
    /\ \E cancelled \in BOOLEAN :
        FnDone("Series", cancelled, NotPulled, NotPulled, scalarSeriesCall(fn))

FailScalarNext ==
    /\ UNCHANGED run
    /\ oper = "scalar" /\ ~mir.over
    /\ \E cancelled \in BOOLEAN : \E in \in Asked(~cancelled, NextOf(child.next, "next")) :
        FnDone("Next", cancelled, in, NotPulled, scalarNextCall(fn, cancelled, in))

NextFail ==
    \/ FailVecSeries \/ FailVecNext \/ FailDupSeries \/ FailDupNext
    \/ FailBinSeries \/ FailBinNext \/ FailAbsentSeries \/ FailAbsentNext
    \/ FailScalarSeries \/ FailScalarNext

-----------------------------------------------------------------------------
(* vectorOperator.Next, statement by statement: the goroutine that calls
   lhs.Next, the caller that calls rhs.Next, and the channel lerrChan of
   capacity 1 between them. *)

\* make(chan error, 1)
NewErrChan == [buf |-> <<>>, closed |-> FALSE]

\* A receive goes on when the channel holds a value or is closed.
canReceiveAlways(ch) == TRUE
canReceive(ch) == ch.buf # <<>> \/ ch.closed

\* A send goes on when the buffer of the channel, of capacity 1, has room.
canSendNever(ch) == FALSE
canSend(ch) == Len(ch.buf) < 1

\* What a receive yields: the value at the head, or nil of a closed channel.
received(ch) == IF ch.buf # <<>> THEN Head(ch.buf) ELSE ""

\* No Next in flight.  lhs and rhs are the variables of Next, order the
\* calls on the children in the order they returned.
PullIdle ==
    [main |-> "idle", go |-> "none", lhs |-> NotPulled, rhs |-> NotPulled,
     lerrChan |-> NewErrChan, lerr |-> "", order |-> <<>>]

\* The two children return batches of one length.
Aligned(a, b) == a.err # "" \/ b.err # "" \/ Len(a.val) = Len(b.val)

\* Next up to the go statement: the context is live, initOnce succeeds.
\* The goroutine of the call before has at most its close left.
PullEnter ==
    /\ oper = "vector" /\ ~mir.over
    /\ run.main = "idle" /\ run.go \in {"none", "done"}
    /\ vec' = vecInitOnce(vec, ChildOK(child.lhs.series), ChildOK(child.rhs.series)).o
    /\ run' = [PullIdle EXCEPT !.main = "rhs.Next", !.go = "lhs.Next"]
    /\ UNCHANGED <<oper, child, d, fn, mir, last>>

\* The goroutine: lhs, err = o.lhs.Next(ctx)
PullLhsNext ==
    /\ run.go = "lhs.Next"
    /\ \E ln \in NextOf(child.lhs, "lhs") :
        /\ run.main = "rhs.Next" \/ Aligned(ln, run.rhs)
        /\ run' = [run EXCEPT !.lhs = ln, !.order = Append(@, "lhs.Next"),
                              !.go = IF ln.err # "" THEN "send" ELSE "close"]
        /\ child' = [child EXCEPT !.lhs.t = @ + Len(ln.val)]
    /\ UNCHANGED <<oper, vec, d, fn, mir, last>>

\* The goroutine: lerrChan <- err
PullSend ==
    /\ run.go = "send" /\ canSend(run.lerrChan)
    /\ run' = [run EXCEPT !.lerrChan.buf = Append(@, run.lhs.err), !.go = "close"]
    /\ UNCHANGED <<oper, child, vec, d, fn, mir, last>>

\* The goroutine: close(lerrChan)
PullClose ==
    /\ run.go = "close"
    /\ run' = [run EXCEPT !.lerrChan.closed = TRUE, !.go = "done"]
    /\ UNCHANGED <<oper, child, vec, d, fn, mir, last>>

\* The caller: rhs, rerr := o.rhs.Next(ctx)
PullRhsNext ==
    /\ run.main = "rhs.Next"
    /\ \E rn \in NextOf(child.rhs, "rhs") :
        /\ run.go = "lhs.Next" \/ Aligned(run.lhs, rn)
        /\ run' = [run EXCEPT !.rhs = rn, !.order = Append(@, "rhs.Next"), !.main = "receive"]
        /\ child' = [child EXCEPT !.rhs.t = @ + Len(rn.val)]
    /\ UNCHANGED <<oper, vec, d, fn, mir, last>>

\* The caller: lerr := <-lerrChan
PullReceive ==
    /\ run.main = "receive" /\ canReceive(run.lerrChan)
    /\ run' = [run EXCEPT !.lerr = received(run.lerrChan),
                          !.lerrChan.buf = IF @ = <<>> THEN @ ELSE Tail(@),
                          !.main = "return"]
    /\ UNCHANGED <<oper, child, vec, d, fn, mir, last>>

\* The caller: the rest of Next, with lhs as the goroutine has left it and
\* the error the channel gave.
PullReturn ==
    /\ run.main = "return"
    /\ vec' = vec
    /\ \E r \in {vecNextPulled(vec, [val |-> run.lhs.val, err |-> run.lerr], run.rhs)} :
        Recorded("Next", FALSE, <<run.lhs.val, run.rhs.val>>, r)
    /\ run' = [run EXCEPT !.main = "idle"]
    /\ UNCHANGED <<oper, child, d, fn>>

NextPull ==
    \/ PullEnter \/ PullLhsNext \/ PullSend \/ PullClose
    \/ PullRhsNext \/ PullReceive \/ PullReturn

-----------------------------------------------------------------------------
(* vectorOperator.init and Next, statement by statement: init starts a
   goroutine that calls lhs.Series and sends on errChan, of capacity 1, and
   returns early when rhs.Series fails; Next follows as above. *)

\* No call in flight and no goroutine started.  igo is the goroutine of
\* init, go that of Next; lhsSeries and rhsSeries are highCardSide and
\* lowCardSide of init, ierr what init received from errChan.
LiveIdle ==
    [main |-> "idle", method |-> "none", go |-> "none", igo |-> "none",
     lhs |-> NotPulled, rhs |-> NotPulled, lerrChan |-> NewErrChan, lerr |-> "", order |-> <<>>,
     lhsSeries |-> NotPulled, rhsSeries |-> NotPulled, errChan |-> NewErrChan, ierr |-> ""]

\* The variables of a Next call from its go statement on.
Pulling(r) ==
    [r EXCEPT !.main = "rhs.Next", !.go = "lhs.Next", !.lhs = NotPulled, !.rhs = NotPulled,
              !.lerrChan = NewErrChan, !.lerr = "", !.order = <<>>]

\* Series or Next is called with a live context.  With the Once not spent
\* the body of once.Do starts init, up to its go statement; with the Once
\* spent Next goes on to its own go statement.  The goroutine of the Next
\* before has at most its close left.
LiveEnter ==
    /\ oper = "vector" /\ ~mir.over
    /\ run.main = "idle" /\ run.go \in {"none", "done"}
    /\ \E method \in {"Series", "Next"} :
        /\ ~vec.once \/ method = "Next"
        /\ run' = IF vec.once THEN [Pulling(run) EXCEPT !.method = method]
                  ELSE [run EXCEPT !.main = "rhs.Series", !.method = method,
                                   !.igo = "lhs.Series"]
    /\ UNCHANGED <<oper, child, vec, d, fn, mir, last>>

\* Series with the Once spent: initOnce returns nil and Series o.series.
LiveSeries ==
    /\ oper = "vector" /\ ~mir.over
    /\ run.main = "idle" /\ vec.once
    /\ Recorded("Series", FALSE, <<<<>>, <<>>>>, vecSeriesAfter([o |-> vec, err |-> ""], {}))
    /\ UNCHANGED <<run, oper, child, vec, d, fn>>

\* The goroutine of init: highCardSide, err = o.lhs.Series(ctx)
InitLhsSeries ==
    /\ run.igo = "lhs.Series"
    /\ \E ls \in SeriesOf(child.lhs, "lhs") :
        run' = [run EXCEPT !.lhsSeries = ls, !.igo = IF ls.err # "" THEN "send" ELSE "close"]
    /\ UNCHANGED <<oper, child, vec, d, fn, mir, last>>

\* The goroutine of init: errChan <- err
InitSend ==
    /\ run.igo = "send" /\ canSend(run.errChan)
    /\ run' = [run EXCEPT !.errChan.buf = Append(@, run.lhsSeries.err), !.igo = "close"]
    /\ UNCHANGED <<oper, child, vec, d, fn, mir, last>>

\* The goroutine of init: close(errChan)
InitClose ==
    /\ run.igo = "close"
    /\ run' = [run EXCEPT !.errChan.closed = TRUE, !.igo = "done"]
    /\ UNCHANGED <<oper, child, vec, d, fn, mir, last>>

\* init: lowCardSide, err := o.rhs.Series(ctx); on an error init returns
\* without receiving.
InitRhsSeries ==
    /\ run.main = "rhs.Series"
    /\ \E rs \in SeriesOf(child.rhs, "rhs") :
        run' = [run EXCEPT !.rhsSeries = rs,
                           !.main = IF rs.err # "" THEN "init return" ELSE "init receive"]
    /\ UNCHANGED <<oper, child, vec, d, fn, mir, last>>

\* init: err := <-errChan
InitReceive ==
    /\ run.main = "init receive" /\ canReceive(run.errChan)
    /\ run' = [run EXCEPT !.ierr = received(run.errChan),
                          !.errChan.buf = IF @ = <<>> THEN @ ELSE Tail(@),
                          !.main = "init return"]
    /\ UNCHANGED <<oper, child, vec, d, fn, mir, last>>

\* The rest of init and the return of once.Do: the Once is spent.  On an
\* error the call returns it; else Series returns o.series and Next goes on
\* to its go statement.
InitReturn ==
    /\ run.main = "init return"
    /\ LET r == vecInitOnce(vec, [val |-> run.lhsSeries.val, err |-> run.ierr], run.rhsSeries)
       IN /\ vec' = r.o
          /\ IF r.err # "" \/ run.method = "Series"
             THEN /\ Recorded(run.method, FALSE, <<<<>>, <<>>>>,
                              vecSeriesAfter(r, {"lhs.Series", "rhs.Series"}))
                  /\ run' = [run EXCEPT !.main = "idle"]
             ELSE /\ run' = Pulling(run)
                  /\ UNCHANGED <<mir, last>>
    /\ UNCHANGED <<oper, child, d, fn>>

\* The steps of the caller, of the goroutine of init and of the goroutine
\* of Next.
CallerSteps == InitRhsSeries \/ InitReceive \/ InitReturn \/ PullRhsNext \/ PullReceive \/ PullReturn
InitGoSteps == InitLhsSeries \/ InitSend \/ InitClose
NextGoSteps == PullLhsNext \/ PullSend \/ PullClose

NextLive == LiveEnter \/ LiveSeries \/ CallerSteps \/ InitGoSteps \/ NextGoSteps


-----------------------------------------------------------------------------
(* sync.Once under two callers, one in Series and one in Next, statement by
   statement: the load of done, the mutex, the body, the deferred store of
   done and the unlock. *)

Callers == {1, 2}

MethodOf(c) == IF c = 1 THEN "Series" ELSE "Next"

\* A caller: where it stands, the error the body left in its variable err,
\* the batch a vector-scalar Next pulled before once.Do, and whether it went
\* on past the initialisation and found the tables built.
NoCaller == [pc |-> "idle", err |-> "", in |-> NotPulled, past |-> FALSE, seen |-> FALSE]

\* bodies counts the runs of the body, asked the calls of Series it made.
OnceIdle ==
    [calls |-> [c \in Callers |-> NoCaller], mutex |-> 0, bodies |-> 0,
     asked |-> <<>>, bodyErr |-> ""]

TheOperator == IF oper = "vector" THEN vec ELSE IF oper = "dup" THEN d ELSE fn

OperatorBecomes(o) ==
    /\ vec' = IF oper = "vector" THEN o ELSE vec
    /\ d' = IF oper = "dup" THEN o ELSE d
    /\ fn' = IF oper = "binary" THEN o ELSE fn

\* What the children answer the body's calls of Series.
BodySeries ==
    IF oper = "vector"
    THEN SeriesOf(child.lhs, "lhs") \X SeriesOf(child.rhs, "rhs")
    ELSE SeriesOf(IF oper = "dup" THEN child ELSE child.next, "next") \X {NotPulled}

SeriesGiven ==
    IF oper = "vector" THEN <<ChildOK(child.lhs.series), ChildOK(child.rhs.series)>>
    ELSE <<ChildOK(IF oper = "dup" THEN child.series ELSE child.next.series), NotPulled>>

\* The function handed to once.Do.
onceBody(o, series) ==
    IF oper = "vector" THEN vecInitOnce(o, series[1], series[2])
    ELSE IF oper = "dup" THEN dupInitOnce(o, series[1])
    ELSE binLoadOnce(o, series[1])

bodyPulls == IF oper = "vector" THEN <<"lhs.Series", "rhs.Series">> ELSE <<"next.Series">>

\* The tables the body builds and no call changes afterwards.
Tables(o) ==
    IF oper = "vector"
    THEN <<o.lhsSampleIDs, o.rhsSampleIDs, o.series, Len(o.lcJoinBuckets), Len(o.hcJoinBuckets)>>
    ELSE IF oper = "dup" THEN <<o.p, Len(o.c)>>
    ELSE <<o.series>>

Built(o) == Tables(o) = Tables(onceBody([o EXCEPT !.once = FALSE], SeriesGiven).o)

At(c, pc) == [run EXCEPT !.calls[c].pc = pc]

\* A caller enters Series or Next; the context is live.
OnceCall ==
    /\ last.res.kind # Panic
    /\ \E c \in Callers :
        /\ run.calls[c].pc = "idle"
        /\ c = 2 => ~mir.over
        /\ run' = [run EXCEPT !.calls[c] =
                      [NoCaller EXCEPT !.pc = IF oper = "binary" /\ c = 2 THEN "next.Next" ELSE "Do"]]
    /\ UNCHANGED <<oper, child, vec, d, fn, mir, last>>

\* Next of the vector-scalar operator pulls o.next.Next before once.Do and
\* returns if that fails or is at its end.
OncePull ==
    \E c \in Callers :
        /\ run.calls[c].pc = "next.Next"
        /\ \E in \in NextOf(child.next, "next") :
            IF in.err # "" \/ Len(in.val) = 0
            THEN /\ Recorded("Next", FALSE, <<in.val, <<>>>>,
                             binNextCall(fn, FALSE, NotPulled, in, NotPulled))
                 /\ run' = At(c, "idle")
                 /\ UNCHANGED <<oper, child, vec, d, fn>>
            ELSE /\ run' = [run EXCEPT !.calls[c].pc = "Do", !.calls[c].in = in]
                 /\ child' = [child EXCEPT !.next.t = @ + Len(in.val)]
                 /\ UNCHANGED <<oper, vec, d, fn, mir, last>>

\* Once.Do: if o.done.Load() == 0 { o.doSlow(f) }
OnceLoad ==
    /\ \E c \in Callers :
        /\ run.calls[c].pc = "Do"
        /\ run' = At(c, IF TheOperator.once THEN "after" ELSE "lock")
    /\ UNCHANGED <<oper, child, vec, d, fn, mir, last>>

\* doSlow: o.m.Lock(); if o.done.Load() == 0 { ... }
OnceLock ==
    /\ \E c \in Callers :
        /\ run.calls[c].pc = "lock" /\ run.mutex = 0
        /\ run' = [At(c, IF TheOperator.once THEN "unlock" ELSE "body") EXCEPT !.mutex = c]
    /\ UNCHANGED <<oper, child, vec, d, fn, mir, last>>

\* doSlow: f(), the body asking the children for their series.
OnceBody ==
    /\ \E c \in Callers :
        /\ run.calls[c].pc = "body"
        /\ \E series \in BodySeries :
            /\ OperatorBecomes([onceBody(TheOperator, series).o EXCEPT !.once = FALSE])
            /\ run' = [At(c, "store") EXCEPT !.calls[c].err = onceBody(TheOperator, series).err,
                                             !.bodyErr = onceBody(TheOperator, series).err,
                                             !.bodies = @ + 1,
                                             !.asked = @ \o bodyPulls]
    /\ UNCHANGED <<oper, child, mir, last>>

\* doSlow: the deferred o.done.Store(1)
OnceStore ==
    /\ \E c \in Callers :
        /\ run.calls[c].pc = "store"
        /\ OperatorBecomes([TheOperator EXCEPT !.once = TRUE])
        /\ run' = At(c, "unlock")
    /\ UNCHANGED <<oper, child, mir, last>>

\* doSlow: the deferred o.m.Unlock()
OnceUnlock ==
    /\ \E c \in Callers :
        /\ run.calls[c].pc = "unlock" /\ run.mutex = c
        /\ run' = [At(c, "after") EXCEPT !.mutex = 0]
    /\ UNCHANGED <<oper, child, vec, d, fn, mir, last>>

\* What once.Do left the caller: the operator and the caller's err.
Past(c) == [o |-> TheOperator, err |-> run.calls[c].err]

OnceDone(c, first, second, r) ==
    /\ OperatorBecomes(r.o)
    /\ Recorded(MethodOf(c), FALSE, <<first.val, second.val>>, r)
    /\ child' = IF oper = "vector"
                THEN [child EXCEPT !.lhs = Advanced(@, "lhs.Next", first, r),
                                   !.rhs = Advanced(@, "rhs.Next", second, r)]
                ELSE IF oper = "dup" THEN Advanced(child, "next.Next", first, r)
                ELSE [child EXCEPT !.scalar = Advanced(@, "scalar.Next", second, r)]
    /\ run' = [run EXCEPT !.calls[c].pc = "idle",
                          !.calls[c].past = (run.calls[c].err = ""),
                          !.calls[c].seen = Built(TheOperator)]
    /\ UNCHANGED oper

\* The rest of Series after the initialisation.
OnceSeriesReturn ==
    /\ run.calls[1].pc = "after"
    /\ \/ /\ oper = "vector"
          /\ OnceDone(1, NotPulled, NotPulled, vecSeriesAfter(Past(1), {}))
       \/ /\ oper = "dup"
          /\ \E again \in SeriesOf(child, "next") :
                OnceDone(1, NotPulled, NotPulled, dupSeriesAfter(Past(1), again))
       \/ /\ oper = "binary"
          /\ OnceDone(1, NotPulled, NotPulled, binSeriesAfter(Past(1), {}))

\* The rest of Next after the initialisation.
OnceNextReturn ==
    /\ run.calls[2].pc = "after"
    /\ \/ /\ oper = "vector"
          /\ \E ln \in Asked(run.calls[2].err = "", NextOf(child.lhs, "lhs")),
                rn \in Asked(run.calls[2].err = "", NextOf(child.rhs, "rhs")) :
                /\ Aligned(ln, rn)
                /\ OnceDone(2, ln, rn, vecNextAfter(Past(2), {}, ln, rn))
       \/ /\ oper = "dup"
          /\ \E in \in Asked(run.calls[2].err = "", DupNextOf(child)) :
                OnceDone(2, in, NotPulled, dupNextAfter(Past(2), {}, in))
       \/ /\ oper = "binary"
          /\ \E scalarIn \in Asked(run.calls[2].err = "", NextOf(child.scalar, "scalar")) :
                /\ Aligned(run.calls[2].in, scalarIn)
                /\ OnceDone(2, NotPulled, scalarIn,
                            binNextAfter(Past(2), {}, run.calls[2].in.val, scalarIn))

NextOnce ==
    \/ OnceCall \/ OncePull \/ OnceLoad \/ OnceLock \/ OnceBody \/ OnceStore
    \/ OnceUnlock \/ OnceSeriesReturn \/ OnceNextReturn


-----------------------------------------------------------------------------
(* The vector operator over children that return batches of any length,
   and with it the steps a consumer has seen so far. *)

\* The steps the children have returned, the steps and the error Next has
\* returned, and whether lhs and rhs ever returned batches of two lengths.
NoSteps == [lhs |-> <<>>, rhs |-> <<>>, out |-> <<>>, err |-> "", uneven |-> FALSE]

\* The stream goes on until Next returns no batch.
Streaming == last.method = "none" \/ last.res.kind \in {"series", "batch"}

BatchSeries ==
    /\ oper = "vector"
    /\ last.method = "none"
    /\ vec' = vecInit(vec, child.lhs.series, child.rhs.series)
    /\ last' = [method |-> "Series", in |-> <<>>, res |-> RetSeries(vec'.series), warns |-> {}]
    /\ UNCHANGED <<run, oper, child, d, fn, mir>>

Seen(lb, rb, r) ==
    mir' = [lhs |-> mir.lhs \o lb, rhs |-> mir.rhs \o rb,
            out |-> mir.out \o r.res.batch,
            err |-> IF r.res.kind \in {"batch", "eof"} THEN "" ELSE r.res.kind,
            uneven |-> mir.uneven \/ Len(lb) # Len(rb)]

BatchNext ==
    /\ oper = "vector"
    /\ Streaming
    /\ \E nl \in BatchSizes(child.lhs), nr \in BatchSizes(child.rhs) :
       \E lb \in ChildBatches(child.lhs, nl), rb \in ChildBatches(child.rhs, nr) :
        /\ Returned(lb, rb, vecNext(vecInit(vec, child.lhs.series, child.rhs.series), lb, rb))
        /\ Seen(lb, rb, vecNext(vecInit(vec, child.lhs.series, child.rhs.series), lb, rb))
        /\ child' = [child EXCEPT !.lhs.t = @ + nl, !.rhs.t = @ + nr]
    /\ UNCHANGED <<run, oper, d, fn>>

NextBatch == BatchSeries \/ BatchNext

\* The same steps through a new operator in batches of one: the steps it
\* returns up to its first error.
oneByOne(acc, r) ==
    IF acc.err # "" THEN acc
    ELSE [o |-> r.o, out |-> acc.out \o r.res.batch,
          err |-> IF r.res.kind \in {"batch", "eof"} THEN "" ELSE r.res.kind]

InBatchesOfOne(o, lhs, rhs) ==
    FoldIdx(LAMBDA acc, i : oneByOne(acc, vecNext(acc.o, <<lhs[i]>>, <<rhs[i]>>)),
            IF Len(rhs) < Len(lhs) THEN Len(rhs) ELSE Len(lhs), 1, [o |-> o, out |-> <<>>, err |-> ""])


-----------------------------------------------------------------------------
(* OperatorTelemetry: NoopTelemetry and TrackedTelemetry. *)

NewNoopTelemetry == [kind |-> "noop"]

\* LoadedSamples is the stats.QuerySamples of the operator: here the
\* number of samples counted.
NewTrackedTelemetry ==
    [kind |-> "tracked", Series |-> 0, ExecutionTime |-> 0, SeriesTime |-> 0, NextTime |-> 0,
     LoadedSamples |-> [TotalSamples |-> 0]]

\* NewTelemetry(operator, opts)
NewTelemetry(EnableAnalysis) ==
    IF EnableAnalysis THEN NewTrackedTelemetry ELSE NewNoopTelemetry

AddSeriesExecutionTimeOnly(tm, t) ==
    IF tm.kind = "noop" THEN tm
    ELSE [tm EXCEPT !.SeriesTime = @ + t]
AddSeriesExecutionTime(tm, t) ==
    IF tm.kind = "noop" THEN tm
    ELSE [tm EXCEPT !.SeriesTime = @ + t, !.ExecutionTime = @ + t]

AddNextExecutionTime(tm, t) ==
    IF tm.kind = "noop" THEN tm
    ELSE [tm EXCEPT !.NextTime = @ + t, !.ExecutionTime = @ + t]

SetMaxSeriesCount(tm, count) ==
    IF tm.kind = "noop" THEN tm ELSE [tm EXCEPT !.Series = count]

IncrementSamplesAtTimestamp(tm, samples) ==
    IF tm.kind = "noop" THEN tm ELSE [tm EXCEPT !.LoadedSamples.TotalSamples = @ + samples]

ExecutionTimeTaken(tm) == IF tm.kind = "noop" THEN 0 ELSE tm.ExecutionTime
SeriesExecutionTime(tm) == IF tm.kind = "noop" THEN 0 ELSE tm.SeriesTime
NextExecutionTime(tm) == IF tm.kind = "noop" THEN 0 ELSE tm.NextTime
MaxSeriesCount(tm) == IF tm.kind = "noop" THEN 0 ELSE tm.Series
Samples(tm) == IF tm.kind = "noop" THEN "nil" ELSE tm.LoadedSamples

\* The times added so far by the calls that have returned, and the samples.
NoTimes == [series |-> 0, next |-> 0, samples |-> 0]

Durations == {t \in 1..MaxTime : mir.series + mir.next + t <= MaxTime}

\* A call on the telemetry one at a time.
TelemetryCall(method, arg, tm, times) ==
    /\ fn' = tm
    /\ last' = [method |-> method, in |-> arg]
    /\ mir' = times
    /\ UNCHANGED <<run, oper, child, d, vec>>

TelAddSeries ==
    /\ oper = "telemetry"
    /\ \E t \in Durations :
        TelemetryCall("AddSeriesExecutionTime", t, AddSeriesExecutionTime(fn, t),
                      [mir EXCEPT !.series = @ + t])

TelAddNext ==
    /\ oper = "telemetry"
    /\ \E t \in Durations :
        TelemetryCall("AddNextExecutionTime", t, AddNextExecutionTime(fn, t),
                      [mir EXCEPT !.next = @ + t])

TelSetMaxSeriesCount ==
    /\ oper = "telemetry"
    /\ \E count \in 0..MaxSteps :
        TelemetryCall("SetMaxSeriesCount", count, SetMaxSeriesCount(fn, count), mir)

TelIncrementSamples ==
    /\ oper = "telemetry"
    /\ mir.samples < MaxSteps
    /\ TelemetryCall("IncrementSamplesAtTimestamp", 1, IncrementSamplesAtTimestamp(fn, 1),
                     [mir EXCEPT !.samples = @ + 1])

NextTelemetry == TelAddSeries \/ TelAddNext \/ TelSetMaxSeriesCount \/ TelIncrementSamples

-----------------------------------------------------------------------------
(* TrackedTelemetry under two callers, one leaving Series and one leaving
   Next: ti.SeriesTime += t and ti.ExecutionTime += t are each a load and a
   store, and nothing orders the two callers. *)

\* A caller: where it stands, the time it adds, and the value it loaded.
NoAdder == [pc |-> "idle", t |-> 0, loaded |-> 0]

AddersIdle == [calls |-> [c \in Callers |-> NoAdder]]

\* The field caller c adds to first.
OwnTime(c) == IF c = 1 THEN "SeriesTime" ELSE "NextTime"

\* The deferred AddSeriesExecutionTime or AddNextExecutionTime is called.
AddCall ==
    /\ \E c \in Callers : \E t \in Durations :
        /\ run.calls[c].pc = "idle"
        /\ run' = [run EXCEPT !.calls[c] = [pc |-> "load own", t |-> t, loaded |-> 0]]
        /\ mir' = IF c = 1 THEN [mir EXCEPT !.series = @ + t] ELSE [mir EXCEPT !.next = @ + t]
    /\ UNCHANGED <<oper, child, d, vec, fn, last>>

\* ti.SeriesTime += t, or ti.NextTime += t: the load.
AddLoadOwn ==
    /\ \E c \in Callers :
        /\ run.calls[c].pc = "load own"
        /\ run' = [run EXCEPT !.calls[c].loaded = fn[OwnTime(c)], !.calls[c].pc = "store own"]
    /\ UNCHANGED <<oper, child, d, vec, fn, last, mir>>

\* ti.SeriesTime += t, or ti.NextTime += t: the store.
AddStoreOwn ==
    /\ \E c \in Callers :
        /\ run.calls[c].pc = "store own"
        /\ fn' = [fn EXCEPT ![OwnTime(c)] = run.calls[c].loaded + run.calls[c].t]
        /\ run' = [run EXCEPT !.calls[c].pc = "load all"]
    /\ UNCHANGED <<oper, child, d, vec, last, mir>>

\* ti.ExecutionTime += t: the load.
AddLoadAll ==
    /\ \E c \in Callers :
        /\ run.calls[c].pc = "load all"
        /\ run' = [run EXCEPT !.calls[c].loaded = fn.ExecutionTime, !.calls[c].pc = "store all"]
    /\ UNCHANGED <<oper, child, d, vec, fn, last, mir>>

\* ti.ExecutionTime += t: the store, and the return.
AddStoreAll ==
    /\ \E c \in Callers :
        /\ run.calls[c].pc = "store all"
        /\ fn' = [fn EXCEPT !.ExecutionTime = run.calls[c].loaded + run.calls[c].t]
        /\ run' = [run EXCEPT !.calls[c].pc = "idle"]
        /\ last' = [method |-> IF c = 1 THEN "AddSeriesExecutionTime" ELSE "AddNextExecutionTime",
                    in |-> run.calls[c].t]
    /\ UNCHANGED <<oper, child, d, vec, mir>>

NextAdders == AddCall \/ AddLoadOwn \/ AddStoreOwn \/ AddLoadAll \/ AddStoreAll


-----------------------------------------------------------------------------
(* The specifications. *)

\* The matchings of the model.
OnX(opType, card, returnBool) == Query(opType, card, TRUE, {"x"}, {}, returnBool)

\* and, or, unless on(x): the set operators are many-to-many.
SetQueries == {OnX(op, "ManyToMany", FALSE) : op \in SetOps}

\* a - on(x) b under each cardinality, and the filter a > on(x) b.
ArithQueries ==
    {OnX("SUB", card, FALSE) : card \in {"OneToOne", "ManyToOne", "OneToMany"}}
        \cup {OnX("GTR", "OneToOne", FALSE)}

InitSet == InitVec(SetQueries, Sides)
SpecSet == InitSet /\ [][NextVec]_vars

InitArith == InitVec(ArithQueries, Sides)
SpecArith == InitArith /\ [][NextVec]_vars

\* a / on(x) group_right b beside b / on(x) group_left a.
InitSwap == InitMirrored({OnX("DIV", "OneToMany", FALSE)}, Sides)
SpecSwap == InitSwap /\ [][NextVec]_vars

\* Every operator under Series alone, over every matching: the operators of
\* the query, with and without bool, the matching labels, the labels included.
OpVariants == {[t |-> "SUB", b |-> FALSE], [t |-> "GTR", b |-> FALSE], [t |-> "GTR", b |-> TRUE]}
MatchSets == {{}, {"x"}, {MetricName, "x"}}
IncludeSets == {{}, {"y"}, {MetricName}}

StaticQueries ==
    {Query(op.t, "OneToOne", on, ml, {}, op.b) :
        op \in OpVariants, on \in BOOLEAN, ml \in MatchSets}
    \cup {Query(op.t, card, on, ml, inc, op.b) :
        op \in OpVariants, card \in {"ManyToOne", "OneToMany"}, on \in BOOLEAN,
        ml \in MatchSets, inc \in IncludeSets}
    \cup {Query(op, "ManyToMany", on, ml, {}, FALSE) :
        op \in SetOps, on \in BOOLEAN, ml \in MatchSets}

StaticLists == Floats(DistinctLists({A1, A1Y, B1}))

StaticOperators ==
    {NewScalar(op.t, side, op.b) : op \in OpVariants, side \in {"Left", "Right"}}

InitStatic ==
    \/ InitMirrored(StaticQueries, StaticLists \X StaticLists)
    \/ InitFn("binary", StaticOperators, Floats(DistinctLists({A1, A1Y, B1, EmptyLabels})))

SpecStatic == InitStatic /\ [][VecSeries \/ BinSeries]_vars

\* a and on(x) b, a - on(x) b; v - s; absent(a{x="1"}); scalar(v); the
\* duplicate check over two series whose hashes collide.
FailLists == Floats({<<A1>>, <<A1, A1Y>>})

\* The operators whose children may fail.
InitFailing ==
    /\ mir = NoHistory
    /\ last = NoCall
    /\ \/ /\ oper = "vector"
          /\ \E q \in {OnX("LAND", "ManyToMany", FALSE), OnX("SUB", "OneToOne", FALSE)} :
                vec = NewVectorOperator(q)
          /\ \E l \in FailLists, r \in Floats({<<A1>>}) :
                child = [lhs |-> NewVecChild(l.series, l.kinds, 1),
                         rhs |-> NewVecChild(r.series, r.kinds, 2)]
          /\ d = NoOperator /\ fn = NoOperator
       \/ /\ oper = "dup"
          /\ d = NewDuplicateLabelCheck
          /\ child = NewChild(<<Lbl("m", "c1", ""), Lbl("m", "c2", "")>>)
          /\ vec = NoOperator /\ fn = NoOperator
       \/ /\ oper \in {"binary", "absent", "scalar"}
          /\ fn = CASE oper = "binary" -> NewScalar("SUB", "Right", FALSE)
                    [] oper = "absent" -> newAbsentOperator(Arg("VectorSelector",
                                            <<Matcher(MetricName, "=", "a"), Matcher("x", "=", "1")>>, <<>>))
                    [] OTHER -> NoOperator
          /\ \E l \in FailLists :
                child = [next |-> NewVecChild(l.series, l.kinds, 1),
                         scalar |-> NewVecChild(<<EmptyLabels>>, <<"float">>, 2)]
          /\ d = NoOperator /\ vec = NoOperator

InitFail == InitFailing /\ run = NoCalls

SpecFail == InitFail /\ [][NextFail]_vars

InitPull == InitFailing /\ oper = "vector" /\ run = PullIdle

SpecPull == InitPull /\ [][NextPull]_vars

BatchQueries == {OnX("SUB", "OneToOne", FALSE), OnX("LAND", "ManyToMany", FALSE)}

InitBatch ==
    /\ oper = "vector"
    /\ \E q \in BatchQueries, l \in FailLists, r \in Floats({<<A1>>}) :
        /\ vec = NewVectorOperator(q)
        /\ child = [lhs |-> NewVecChild(l.series, l.kinds, 1),
                    rhs |-> NewVecChild(r.series, r.kinds, 2)]
    /\ d = NoOperator /\ fn = NoOperator
    /\ mir = NoSteps
    /\ last = NoCall
    /\ run = NoCalls

SpecBatch == InitBatch /\ [][NextBatch]_vars

InitTelemetry ==
    /\ oper = "telemetry"
    /\ \E EnableAnalysis \in BOOLEAN : fn = NewTelemetry(EnableAnalysis)
    /\ child = NoOperator /\ d = NoOperator /\ vec = NoOperator
    /\ mir = NoTimes
    /\ last = NoCall
    /\ run = NoCalls

SpecTelemetry == InitTelemetry /\ [][NextTelemetry]_vars

InitAdders ==
    /\ oper = "telemetry"
    /\ fn = NewTrackedTelemetry
    /\ child = NoOperator /\ d = NoOperator /\ vec = NoOperator
    /\ mir = NoTimes
    /\ last = NoCall
    /\ run = AddersIdle

SpecAdders == InitAdders /\ [][NextAdders]_vars

\* a - on(x) b over children that have no series: their steps are empty,
\* and their calls return or fail.
InitLive ==
    /\ oper = "vector"
    /\ vec = NewVectorOperator(OnX("SUB", "OneToOne", FALSE))
    /\ child = [lhs |-> NewVecChild(<<>>, <<>>, 1), rhs |-> NewVecChild(<<>>, <<>>, 2)]
    /\ d = NoOperator /\ fn = NoOperator
    /\ mir = NoHistory
    /\ last = NoCall
    /\ run = LiveIdle

\* The calls on the children return and the scheduler of Go leaves no
\* goroutine that can run waiting for ever.
SpecLive ==
    /\ InitLive /\ [][NextLive]_vars
    /\ WF_vars(CallerSteps) /\ WF_vars(InitGoSteps) /\ WF_vars(NextGoSteps)

InitOnce == InitFailing /\ oper \in {"vector", "dup", "binary"} /\ run = OnceIdle

SpecOnce == InitOnce /\ [][NextOnce]_vars

\* The operators of the model, each driven through Series and Next.
Init == InitDup \/ InitSet \/ InitArith \/ InitScalar \/ InitAbsent \/ InitBin

Next == NextDup \/ NextVec \/ NextFn

Spec == Init /\ [][Next]_vars

-----------------------------------------------------------------------------
(* Claims about the set operators of the vector operator. *)

\* The last call was a Next of the vector operator that returned a batch.
VecBatch == oper = "vector" /\ last.method = "Next" /\ last.res.kind = "batch"

\* Step i of the batch returned, and the steps of lhs and rhs it was made of.
OutStep(i) == last.res.batch[i]
LhsStep(i) == last.in[1][i]
RhsStep(i) == last.in[2][i]

\* The join signatures of the series of the children and of the output.
LhsSig(id) == sigFunc(vec.q, child.lhs.series[id + 1])
RhsSig(id) == sigFunc(vec.q, child.rhs.series[id + 1])
OutSig(id) == sigFunc(vec.q, vec.series[id + 1])

\* The signatures present on a side at step i: of its float samples, of its
\* histograms, of both.
LhsSampleSigs(i) == {LhsSig(id) : id \in Range(LhsStep(i).SampleIDs)}
LhsRowSigs(i) == LhsSampleSigs(i) \cup {LhsSig(id) : id \in Range(LhsStep(i).HistogramIDs)}
RhsSampleSigs(i) == {RhsSig(id) : id \in Range(RhsStep(i).SampleIDs)}
RhsRowSigs(i) == RhsSampleSigs(i) \cup {RhsSig(id) : id \in Range(RhsStep(i).HistogramIDs)}

\* Sample k of output step i is sample j of lhs step i: its value, under the
\* labels of its series.
FromLhsSample(i, k, j) ==
    /\ OutStep(i).Samples[k] = LhsStep(i).Samples[j]
    /\ vec.series[OutStep(i).SampleIDs[k] + 1] = child.lhs.series[LhsStep(i).SampleIDs[j] + 1]

\* C6: every sample that `and` emits in a step is an lhs sample of that step
\* whose signature is the signature of an rhs sample of the same step; an lhs
\* sample whose signature rhs does not have in this step is not emitted, also
\* when rhs had it in an earlier step.
C6_AndSameStep ==
    (VecBatch /\ vec.q.opType = "LAND") =>
        \A i \in DOMAIN last.res.batch :
            /\ \A k \in DOMAIN OutStep(i).SampleIDs : \E j \in DOMAIN LhsStep(i).SampleIDs :
                /\ FromLhsSample(i, k, j)
                /\ LhsSig(LhsStep(i).SampleIDs[j]) \in RhsSampleSigs(i)
            /\ \A j \in DOMAIN LhsStep(i).SampleIDs :
                LhsSig(LhsStep(i).SampleIDs[j]) \notin RhsSampleSigs(i)
                    => LhsStep(i).Samples[j] \notin Range(OutStep(i).Samples)

\* `and` over a batch of two steps: rhs has the signature of the lhs sample in
\* the first step only, and only the first output step holds the sample.
C6_Witness ==
    /\ VecBatch /\ vec.q.opType = "LAND" /\ Len(last.res.batch) = 2
    /\ LhsStep(1).SampleIDs = <<0>> /\ LhsStep(2).SampleIDs = <<0>>
    /\ LhsSig(0) \in RhsSampleSigs(1)
    /\ RhsRowSigs(2) = {}
    /\ Len(OutStep(1).SampleIDs) = 1
    /\ OutStep(2).SampleIDs = <<>>

\* C7: `unless` emits in a step no series whose signature rhs has in that
\* step, as a float sample or as a histogram, and emits every lhs sample whose
\* signature rhs does not have in that step, with its value.
C7_UnlessSubtracts ==
    (VecBatch /\ vec.q.opType = "LUNLESS") =>
        \A i \in DOMAIN last.res.batch :
            /\ \A k \in DOMAIN OutStep(i).SampleIDs :
                OutSig(OutStep(i).SampleIDs[k]) \notin RhsRowSigs(i)
            /\ \A j \in DOMAIN LhsStep(i).SampleIDs :
                LhsSig(LhsStep(i).SampleIDs[j]) \notin RhsRowSigs(i)
                    => \E k \in DOMAIN OutStep(i).SampleIDs : FromLhsSample(i, k, j)

-----------------------------------------------------------------------------
(* Claims about the vector operator on arithmetic and comparison operators. *)

\* The last call was a Next of the vector operator that pulled a batch from
\* each child.
VecPulled == oper = "vector" /\ last.method = "Next" /\ last.in[1] # <<>>

\* The steps of the high-card and of the low-card side, and their series.
HcStep(i) == IF vec.q.card = "OneToMany" THEN RhsStep(i) ELSE LhsStep(i)
LcStep(i) == IF vec.q.card = "OneToMany" THEN LhsStep(i) ELSE RhsStep(i)
HcSeries == IF vec.q.card = "OneToMany" THEN child.rhs.series ELSE child.lhs.series
LcSeries == IF vec.q.card = "OneToMany" THEN child.lhs.series ELSE child.rhs.series

\* The rows of a step: the IDs of its float samples and of its histograms.
Rows(step) == Range(step.SampleIDs) \cup Range(step.HistogramIDs)

\* Two rows of the low-card side of step i have one signature.
LcDuplicate(i) ==
    \E a, b \in Rows(LcStep(i)) :
        a # b /\ sigFunc(vec.q, LcSeries[a + 1]) = sigFunc(vec.q, LcSeries[b + 1])

\* Two rows of the high-card side of step i have one signature, and a row of
\* the low-card side has it too.
HcDuplicate(i) ==
    \E a, b \in Rows(HcStep(i)) : \E c \in Rows(LcStep(i)) :
        /\ a # b
        /\ sigFunc(vec.q, HcSeries[a + 1]) = sigFunc(vec.q, HcSeries[b + 1])
        /\ sigFunc(vec.q, HcSeries[a + 1]) = sigFunc(vec.q, LcSeries[c + 1])

\* C3: when two rows of the low-card side of a step have one signature, the
\* high-card side having a row to pair in that step and no earlier step
\* of the batch failing, Next fails with the many-to-many error.
C3_ManyToManyDetected ==
    (VecPulled /\ \E i \in DOMAIN last.in[1] :
            /\ LcDuplicate(i)
            /\ Rows(HcStep(i)) # {}
            /\ \A j \in 1..(i - 1) : ~LcDuplicate(j) /\ ~HcDuplicate(j))
        => last.res.kind = ErrManyToMany

\* The many-to-many error is raised whenever the high-card side has a float
\* sample in the step.
C3_WithHcSample ==
    (VecPulled /\ \E i \in DOMAIN last.in[1] :
            /\ LcDuplicate(i)
            /\ HcStep(i).SampleIDs # <<>>
            /\ \A j \in 1..(i - 1) : ~LcDuplicate(j) /\ ~HcDuplicate(j))
        => last.res.kind = ErrManyToMany

\* C4: under CardOneToOne, when two rows of the high-card side of a step have
\* one signature that a low-card row of the step has too, no step up to it
\* failing for a many-to-many match and no earlier one for this, Next fails
\* with the implicit many-to-one error; under CardManyToOne and CardOneToMany
\* Next never fails with it.
C4_ImplicitManyToOne ==
    VecPulled =>
        /\ (vec.q.card = "OneToOne" /\ \E i \in DOMAIN last.in[1] :
                /\ HcDuplicate(i)
                /\ \A j \in 1..i : ~LcDuplicate(j)
                /\ \A j \in 1..(i - 1) : ~HcDuplicate(j))
            => last.res.kind = ErrImplicitManyToOne
        /\ vec.q.card # "OneToOne" => last.res.kind # ErrImplicitManyToOne

\* The implicit many-to-one error is raised whenever the high-card side has a
\* float sample in the step.
C4_WithHcSample ==
    VecPulled =>
        /\ (vec.q.card = "OneToOne" /\ \E i \in DOMAIN last.in[1] :
                /\ HcDuplicate(i)
                /\ HcStep(i).SampleIDs # <<>>
                /\ \A j \in 1..i : ~LcDuplicate(j)
                /\ \A j \in 1..(i - 1) : ~HcDuplicate(j))
            => last.res.kind = ErrImplicitManyToOne
        /\ vec.q.card # "OneToOne" => last.res.kind # ErrImplicitManyToOne

-----------------------------------------------------------------------------
(* Claims about the series of the binary operators. *)

\* The vector operator has built its tables for an arithmetic or comparison
\* operator.
PairingBuilt == oper = "vector" /\ vec.once /\ vec.q.opType \notin SetOps

\* High-card series i and low-card series j have one signature, and the
\* output series of their pair.
Matched(i, j) == sigFunc(vec.q, HcSeries[i]) = sigFunc(vec.q, LcSeries[j])
PairSeries(i, j) == vec.series[outputSeriesID(vec, i, j) + 1]

\* The vector-scalar operator has loaded its series.
ScalarBuilt == oper = "binary" /\ fn.once

\* The rule of the metric name: gone from the outputs of an arithmetic
\* operator and of a comparison with bool.
NameGone(opType, returnBool) == opType \in ArithmeticOps \/ returnBool

\* C5: an output series of an arithmetic operator or of a comparison with
\* bool has no __name__, an output series of a comparison without bool has
\* the __name__ of the input series it derives from: for the vector operator
\* under every matching, for the vector-scalar operator for every input label
\* set that is not empty.
C5_MetricNameRule ==
    /\ PairingBuilt =>
        \A i \in DOMAIN HcSeries, j \in DOMAIN LcSeries :
            Matched(i, j) =>
                PairSeries(i, j)[MetricName] =
                    IF NameGone(vec.q.opType, vec.q.returnBool) THEN "" ELSE HcSeries[i][MetricName]
    /\ ScalarBuilt =>
        \A i \in DOMAIN child.next.series :
            child.next.series[i] # EmptyLabels =>
                fn.series[i][MetricName] =
                    IF NameGone(fn.opType, fn.returnBool) THEN "" ELSE child.next.series[i][MetricName]

\* The __name__ of the output of a pair: the low-card series' if include
\* names it, unless bool takes it away again; else none after an arithmetic
\* operator or a comparison with bool; else none under CardOneToOne when
\* on(...) does not list __name__ or ignoring(...) lists it; else the
\* high-card series'.
PairName(q, hc, lc) ==
    IF MetricName \in q.include THEN (IF q.returnBool THEN "" ELSE lc[MetricName])
    ELSE IF NameGone(q.opType, q.returnBool) THEN ""
    ELSE IF q.card = "OneToOne" /\ (q.on <=> MetricName \notin q.matchingLabels) THEN ""
    ELSE hc[MetricName]

\* C5 as amended: the rule holds for the vector-scalar operator; for the
\* vector operator the matching has its say, under CardOneToOne and through
\* the include list.
C5_MetricNameByMatching ==
    /\ PairingBuilt =>
        \A i \in DOMAIN HcSeries, j \in DOMAIN LcSeries :
            Matched(i, j) => PairSeries(i, j)[MetricName] = PairName(vec.q, HcSeries[i], LcSeries[j])
    /\ ScalarBuilt =>
        \A i \in DOMAIN child.next.series :
            child.next.series[i] # EmptyLabels =>
                fn.series[i][MetricName] =
                    IF NameGone(fn.opType, fn.returnBool) THEN "" ELSE child.next.series[i][MetricName]

\* a > on(x) b, one to one: the output of the pair of a{x="1"} and b{x="1"}
\* has lost the name a.
C5_Witness ==
    /\ PairingBuilt
    /\ vec.q = Query("GTR", "OneToOne", TRUE, {"x"}, {}, FALSE)
    /\ child.lhs.series = <<A1>> /\ child.rhs.series = <<B1>>
    /\ PairSeries(1, 1) = Lbl("", "1", "")

\* The harness runs the query beside its mirror, and both have built their
\* tables.
BothBuilt == oper = "vector" /\ mir # NoOperator /\ vec.once

SwapPulled == BothBuilt /\ vec.q.card = "OneToMany" /\ last.method = "Next"

\* C9: A / on(x) group_right B and B / on(x) group_left A have the same
\* output series and return the same steps, value for value.
C9_SwapEqual ==
    SwapPulled => (vec.series = mir.o.series /\ last.res = mir.res)

\* The values a bucket of the low-card side A can hold: 0 before the first
\* sample, then the value of a sample of A.
LcValues ==
    {F(0)} \cup {RowValue(child.lhs, id, t) : id \in 0..1, t \in 0..MaxSteps}

\* C9 as amended: the same output series and in every step rows of the same
\* series; where a float row of the first query is x / y, x from A and y a
\* sample of B in that step, the row of the second is y / x.
C9_SwapExchangesOperands ==
    SwapPulled =>
        /\ vec.series = mir.o.series
        /\ last.res.kind = mir.res.kind
        /\ Len(last.res.batch) = Len(mir.res.batch)
        /\ \A i \in DOMAIN last.res.batch :
            /\ OutStep(i).T = mir.res.batch[i].T
            /\ OutStep(i).SampleIDs = mir.res.batch[i].SampleIDs
            /\ OutStep(i).HistogramIDs = mir.res.batch[i].HistogramIDs
            /\ \A k \in DOMAIN OutStep(i).Samples :
                \E x \in LcValues, y \in Range(RhsStep(i).Samples) :
                    /\ OutStep(i).Samples[k] = FDiv(x, y)
                    /\ mir.res.batch[i].Samples[k] = FDiv(y, x)

\* Both queries have returned a step with a sample of the pair of a{x="1"} on
\* either side: 1/2 from the first, 2 from the second.
C9_Witness ==
    /\ SwapPulled /\ last.res.kind = "batch"
    /\ OutStep(1).Samples = <<Frac(1, 2)>>
    /\ mir.res.batch[1].Samples = <<F(2)>>

-----------------------------------------------------------------------------
(* Claims about every operator. *)

\* What Series() of the operator returns.
SeriesReturned ==
    CASE oper = "dup" -> child.series
      [] oper = "vector" -> vecInit(vec, child.lhs.series, child.rhs.series).series
      [] oper = "scalar" -> scalarSeries
      [] oper = "absent" -> absentLoadSeries(fn).series
      [] oper = "binary" -> loadSeries(fn, child.next.series).series

\* The last call was a Next that returned a batch.
BatchReturned == last.method = "Next" /\ last.res.kind = "batch"

ParallelArrays(step) ==
    /\ Len(step.SampleIDs) = Len(step.Samples)
    /\ Len(step.HistogramIDs) = Len(step.Histograms)

IDsWithinSeries(step) == \A id \in Rows(step) : id < Len(SeriesReturned)

\* C10: in every step an operator returns, SampleIDs and Samples are of one
\* length, HistogramIDs and Histograms are of one length, and every ID is
\* less than the length of the list Series() returns.
C10_IDsWithinSeries ==
    BatchReturned =>
        \A i \in DOMAIN last.res.batch :
            ParallelArrays(OutStep(i)) /\ IDsWithinSeries(OutStep(i))

\* C10 as amended: the arrays are parallel in every step of every operator;
\* the IDs are within Series() for every operator but scalar(v), whose
\* Series() is empty and whose steps hold the one sample of ID 0.
C10_IDsWithinSeriesButScalar ==
    BatchReturned =>
        \A i \in DOMAIN last.res.batch :
            /\ ParallelArrays(OutStep(i))
            /\ oper # "scalar" => IDsWithinSeries(OutStep(i))
            /\ oper = "scalar" =>
                (OutStep(i).SampleIDs = <<0>> /\ OutStep(i).HistogramIDs = <<>>
                    /\ SeriesReturned = <<>>)

\* The vector operator has returned a step with a sample of the last of its
\* two or more series.
C10_Witness ==
    /\ BatchReturned /\ oper = "vector"
    /\ Len(SeriesReturned) >= 2
    /\ \E i \in DOMAIN last.res.batch : (Len(SeriesReturned) - 1) \in Rows(OutStep(i))

-----------------------------------------------------------------------------
(* Claims about the rows of a step of the vector operator. *)

\* a - on(x) group_left b and a - on(x) group_right b over a many side of
\* two series that differ in their metric name only.
GroupQueries == {OnX("SUB", card, FALSE) : card \in {"ManyToOne", "OneToMany"}}
GroupLists == Typed({<<A1, B1>>})
GroupSides == (GroupLists \X SingleLists) \cup (SingleLists \X GroupLists)

\* a * on(x) group_left(y) b over one rhs series, with y or without, and lhs
\* series of which two have the signature of the rhs series.
IncludeQueries == {Query("MUL", "ManyToOne", TRUE, {"x"}, {"y"}, FALSE)}
A1Q == [A1 EXCEPT !["q"] = "z"]
IncludeSides ==
    Floats({<<A1>>, <<A1, A2>>, <<A1, A1Y>>, <<A1, A1Q>>}) \X Floats({<<B1>>, <<Lbl("b", "1", "Y")>>})

InitInclude == InitVec(IncludeQueries, IncludeSides)
SpecInclude == InitInclude /\ [][NextVec]_vars

InitGroup == InitVec(GroupQueries, GroupSides)
SpecGroup == InitGroup /\ [][NextVec]_vars

\* No series has two rows in the step.
UniqueIDs(step) ==
    Len(step.SampleIDs) + Len(step.HistogramIDs) = Cardinality(Rows(step))

\* C11: the steps of the children holding every ID at most once and no error
\* being raised, every step the vector operator returns holds every output
\* series ID at most once, samples and histograms together.
C11_UniqueOutputIDs ==
    VecBatch =>
        \A i \in DOMAIN last.res.batch :
            (UniqueIDs(LhsStep(i)) /\ UniqueIDs(RhsStep(i))) => UniqueIDs(OutStep(i))

-----------------------------------------------------------------------------
(* Claims about the timestamps of the steps. *)

\* The child whose steps give the output steps their timestamps, and the
\* batch it returned to the last call.
FirstChild ==
    CASE oper = "dup" -> child
      [] oper = "vector" -> child.lhs
      [] OTHER -> child.next
FirstIn == IF oper = "dup" THEN last.in ELSE last.in[1]

-----------------------------------------------------------------------------
(* Claims about the pools. *)

\* What the last Next call has put back to the pools of its children.  The
\* duplicate check puts nothing back: it hands the child's batch to its
\* caller, who puts it back to the pool of the child (GetPool is the child's).
PutBack ==
    CASE oper = "vector" -> last.puts
      [] oper = "scalar" -> scalarPuts(last.in[1])
      [] oper = "absent" -> absentPuts(last.in[1])
      [] oper = "binary" -> binPuts(last.in[1], last.in[2])
      [] oper = "dup" -> Puts(IF last.res.kind = "batch" THEN Len(last.in) ELSE 0, 0,
                              last.res.kind = "batch")

\* The batches the last Next call got from its first and second child.
FirstBatch == IF oper = "dup" THEN last.in ELSE last.in[1]
SecondBatch == IF oper \in {"vector", "binary"} THEN last.in[2] ELSE <<>>

\* C13: after a Next call, be its result a batch, the end or an error, every
\* step of every batch the call got from a child, and every such batch, has
\* been put back to the pool of that child.
C13_PoolDiscipline ==
    last.method = "Next" =>
        /\ PutBack.lhsSteps = Len(FirstBatch)
        /\ PutBack.rhsSteps = Len(SecondBatch)
        /\ Len(FirstBatch) > 0 => PutBack.lhsBatch
        /\ Len(SecondBatch) > 0 => PutBack.rhsBatch


\* ---------------------------------------------------------------------
\* Claims about Series
\* ---------------------------------------------------------------------

\* The operators that keep their own series table.  The duplicate check
\* hands on what its child answers and is as idempotent as the child.
Memoizing == {"vector", "binary", "absent", "scalar"}

\* C14: Series is idempotent.  However Series and Next calls interleave,
\* any two Series calls on one operator return the same label sets and the
\* same error outcome.
C14_SeriesIdempotent ==
    oper \in Memoizing => Cardinality(mir.returned) <= 1

\* The same, of the queries none of whose children failed so far.
C14_IdempotentWithoutFailure ==
    (oper \in Memoizing /\ \A res \in mir.returned : res.kind = "series")
        => Cardinality(mir.returned) <= 1

\* ---------------------------------------------------------------------
\* Claims about a failed initialisation
\* ---------------------------------------------------------------------

\* The one-shot initialisation of the operator has run and has failed: the
\* Once is spent and the tables are not built (every child of these queries
\* has a series).
InitFailed ==
    \/ oper = "vector" /\ vec.once /\ vec.lhsSampleIDs = <<>>
    \/ oper = "binary" /\ fn.once /\ fn.series = <<>>
    \/ oper = "dup" /\ d.once /\ d.c = <<>>

\* The last call has returned an error.
ErrorReturned == last.res.kind \notin {"none", "series", "batch", "eof", Panic}

\* C32: a failed one-shot initialisation is never taken for a success.  Once
\* a child's Series has failed in the first Series or Next call of the
\* vector operator, the vector-scalar operator or the duplicate check, that
\* call and every later Series or Next call on the operator return an
\* error: none returns a nil series list without error, runs a step on
\* tables that are not built, or skips the duplicate check.
C32_FailureSticks ==
    (InitFailed /\ last.method \in {"Series", "Next"}) => ErrorReturned

\* The call in which the initialisation fails returns the error of the
\* child's Series.
C32_FirstCallFails ==
    (InitFailed /\ last.method \in {"Series", "Next"} /\ oper \in {"vector", "binary"}
        /\ last.pulled \cap {"lhs.Series", "rhs.Series", "next.Series"} # {})
        => last.res.kind \in {"lhs.Series failed", "rhs.Series failed", "next.Series failed"}

\* A Series call after the failed initialisation returns no series and no
\* error.
C32_NilSeries ==
    /\ InitFailed /\ last.method = "Series" /\ oper \in {"vector", "binary"}
    /\ last.res = RetSeries(<<>>)

\* A Next call of the duplicate check after the failed initialisation hands
\* on a batch in which the two colliding series have a sample in one step.
C32_CheckSkipped ==
    /\ InitFailed /\ last.method = "Next" /\ oper = "dup"
    /\ last.res.kind = "batch"
    /\ \E i \in DOMAIN last.in : BothSampled(last.in, i, 0, 1)

\* ---------------------------------------------------------------------
\* Claims about cancellation
\* ---------------------------------------------------------------------

\* C15: a call of Next or of Series with a context that is cancelled
\* already returns the error of the context, pulls from no child and
\* returns no data.
C15_Cancellation ==
    (last.method \in {"Series", "Next"} /\ last.ctx)
        => (last.res = RetErr(ErrCtx) /\ last.pulled = {})

\* The same of Next alone.
C15_NextCancellation ==
    (last.method = "Next" /\ last.ctx)
        => (last.res = RetErr(ErrCtx) /\ last.pulled = {})



\* ---------------------------------------------------------------------
\* Claims about the two pulls of the vector operator
\* ---------------------------------------------------------------------

\* Both children have returned from Next.
BothPulled == {run.order[i] : i \in DOMAIN run.order} = {"lhs.Next", "rhs.Next"}

\* What Next returns of the errors of its children: that of rhs if rhs
\* failed, else that of lhs.
PulledError ==
    IF run.rhs.err # "" THEN run.rhs.err ELSE run.lhs.err

\* C16: Next of the vector operator has lhs.Next and rhs.Next in flight
\* together and does not go on to return before both have returned; if one
\* child fails Next returns its error, if both fail the error of rhs, and
\* with an error it returns no batch.
C16_PullsBothChildren ==
    /\ run.main = "return" => BothPulled
    /\ (run.main = "idle" /\ last.method = "Next") =>
        /\ BothPulled
        /\ PulledError # "" => last.res = RetErr(PulledError)
        /\ PulledError # "" => (last.res.kind # "batch" /\ last.res.batch = <<>>)

\* Both children failed, rhs while the goroutine was still in lhs.Next, and
\* Next has returned the error of rhs.
C16_Witness ==
    /\ run.main = "idle" /\ last.method = "Next"
    /\ run.order = <<"rhs.Next", "lhs.Next">>
    /\ run.lhs.err = "lhs.Next failed" /\ run.rhs.err = "rhs.Next failed"
    /\ last.res = RetErr("rhs.Next failed")

\* The two calls are in flight at one time.
C16_BothInFlight == run.main = "rhs.Next" /\ run.go = "lhs.Next"

\* lhs.Next returns before rhs.Next does, and only lhs fails.
C16_LhsFirst ==
    /\ run.main = "idle" /\ last.method = "Next"
    /\ run.order = <<"lhs.Next", "rhs.Next">>
    /\ run.rhs.err = "" /\ last.res = RetErr("lhs.Next failed")



\* A goroutine is started and has not run to its end.
Started(pc) == pc \notin {"none", "done"}

\* C34: no goroutine of the vector operator stays blocked.  The calls on
\* the children returning, every call of init and of Next returns in the
\* end, and the goroutine started for the lhs child runs to its end, its
\* send on the error channel never blocking, whichever of lhs and rhs
\* fails, also when init returns early on an error of rhs.
C34_NoBlockedGoroutine ==
    /\ (run.main # "idle") ~> (run.main = "idle")
    /\ Started(run.igo) ~> (run.igo = "done")
    /\ Started(run.go) ~> (run.go = "done")

\* No send finds the buffer of its channel full.
C34_SendNeverBlocks ==
    /\ run.igo = "send" => canSend(run.errChan)
    /\ run.go = "send" => canSend(run.lerrChan)

\* init has returned early on the error of rhs.Series, the call has
\* returned, and the goroutine of init, in which lhs.Series failed too, has
\* run to its end with its error left in the channel.
C34_Witness ==
    /\ oper = "vector" /\ run.main = "idle" /\ last.method \in {"Series", "Next"}
    /\ last.res = RetErr("rhs.Series failed")
    /\ run.igo = "done" /\ run.errChan = [buf |-> <<"lhs.Series failed">>, closed |-> TRUE]

\* The call has returned on the error of rhs.Series while the goroutine of
\* init is still in lhs.Series.
C34_EarlyReturn ==
    /\ oper = "vector" /\ run.main = "idle" /\ last.res = RetErr("rhs.Series failed")
    /\ run.igo = "lhs.Series"

\* ---------------------------------------------------------------------
\* Claims about the initialisation under two callers
\* ---------------------------------------------------------------------

\* No child is asked for its series twice.
AskedOnce == \A i, j \in DOMAIN run.asked : run.asked[i] = run.asked[j] => i = j

\* C17: with Series and Next called at one time on a vector operator, a
\* vector-scalar operator or a duplicate check, the body of the
\* initialisation runs once, asks each child for its series at most once,
\* and every caller that goes on past the initialisation finds the series
\* table and the join tables built.
C17_InitialisedOnce ==
    /\ run.bodies <= 1 /\ AskedOnce
    /\ \A c \in Callers : run.calls[c].past => (run.bodies = 1 /\ run.calls[c].seen)

\* The same, of the runs in which no child's Series fails.
C17_OnceWithoutFailure ==
    /\ run.bodies <= 1 /\ AskedOnce
    /\ \A c \in Callers :
        (run.calls[c].past /\ run.bodyErr = "") => (run.bodies = 1 /\ run.calls[c].seen)

\* Both callers were inside once.Do together, and the one that did not run
\* the body went on with the tables built.
C17_BothPast ==
    /\ run.bodyErr = "" /\ run.bodies = 1
    /\ \A c \in Callers : run.calls[c].past /\ run.calls[c].seen



\* ---------------------------------------------------------------------
\* Claims about the batches
\* ---------------------------------------------------------------------

\* The stream is over: Next has returned no batch, or an error.
StreamOver == last.method = "Next" /\ last.res.kind # "batch"

\* The steps the operator returns of the steps its children returned, were
\* they to come in batches of one.
OneByOne ==
    InBatchesOfOne(vecInit(NewVectorOperator(vec.q), child.lhs.series, child.rhs.series),
                   mir.lhs, mir.rhs)

\* C18: the batches are not to be seen in what the vector operator returns.
\* Of the same steps of its two children it returns the same steps
\* (timestamps, IDs, values) one after the other whether the children return
\* them in batches of one or of N, and also when lhs and rhs return batches
\* of two lengths in one call of Next.  Stated of the streams none of whose
\* steps fails.
C18_BatchesNotObservable ==
    (StreamOver /\ OneByOne.err = "") => (mir.out = OneByOne.out /\ mir.err = "")

\* The same, of the streams in which lhs and rhs return batches of one
\* length in every call.
C18_EvenBatches ==
    (StreamOver /\ ~mir.uneven /\ OneByOne.err = "")
        => (mir.out = OneByOne.out /\ mir.err = "")

\* The same, of the streams one of whose steps fails: the steps returned
\* before the error.
C18_StepsBeforeAnError ==
    (StreamOver /\ ~mir.uneven) => (mir.out = OneByOne.out /\ mir.err = OneByOne.err)

\* A stream of two steps returned in one batch.
C18_EvenWitness ==
    /\ StreamOver /\ ~mir.uneven /\ OneByOne.err = ""
    /\ Len(mir.out) = MaxSteps /\ last.in[1] = <<>> /\ mir.out[1].SampleIDs # <<>>



\* ---------------------------------------------------------------------
\* Claims about scalar(v) and absent(v)
\* ---------------------------------------------------------------------

\* Next of the operator of kind has returned a batch.
BatchOf(kind) == oper = kind /\ last.method = "Next" /\ last.res.kind = "batch"

\* The one float sample of ID 0 and of value v at t, and nothing else.
OneSample(t, v) == StepVector(t, <<0>>, <<v>>, <<>>, <<>>)

\* C19: scalar(v) returns for every input step a step of the same
\* timestamp with one float sample of ID 0 and no histogram; the value is
\* the only float sample of the input step if it has exactly one, and NaN
\* if it has none, two or more, or histograms only.
C19_ScalarPerStep ==
    BatchOf("scalar") =>
        /\ Len(last.res.batch) = Len(FirstIn)
        /\ \A i \in DOMAIN FirstIn :
            last.res.batch[i] =
                OneSample(FirstIn[i].T,
                          IF Len(FirstIn[i].Samples) = 1 THEN FirstIn[i].Samples[1] ELSE NaN)

\* A batch with a step of one sample, a step of two samples and a step of
\* histograms only.
C19_Witness ==
    /\ BatchOf("scalar")
    /\ \E i, j \in DOMAIN FirstIn :
        /\ Len(FirstIn[i].Samples) = 1 /\ ~IsNaN(last.res.batch[i].Samples[1])
        /\ Len(FirstIn[j].Samples) = 2 /\ IsNaN(last.res.batch[j].Samples[1])

\* A step of histograms only gives NaN.
C19_HistogramsOnly ==
    /\ BatchOf("scalar")
    /\ \E i \in DOMAIN FirstIn :
        /\ FirstIn[i].Samples = <<>> /\ FirstIn[i].Histograms # <<>>
        /\ last.res.batch[i] = OneSample(FirstIn[i].T, NaN)

\* C20: absent(v) returns one step for every input step, of the same
\* timestamp, holding the one sample of ID 0 and value 1 if the input step
\* has no float sample and no histogram, and nothing otherwise.
C20_AbsentPerStep ==
    BatchOf("absent") =>
        /\ Len(last.res.batch) = Len(FirstIn)
        /\ \A i \in DOMAIN FirstIn :
            last.res.batch[i] =
                IF FirstIn[i].Samples = <<>> /\ FirstIn[i].Histograms = <<>>
                THEN OneSample(FirstIn[i].T, F(1))
                ELSE EmptyStep(FirstIn[i].T)

\* A batch with an empty step, for which absent returns the sample, and a
\* step of histograms only, for which it returns nothing.
C20_Witness ==
    /\ BatchOf("absent")
    /\ \E i, j \in DOMAIN FirstIn :
        /\ FirstIn[i].Samples = <<>> /\ FirstIn[i].Histograms = <<>>
        /\ last.res.batch[i].SampleIDs = <<0>>
        /\ FirstIn[j].Samples = <<>> /\ FirstIn[j].Histograms # <<>>
        /\ last.res.batch[j].SampleIDs = <<>>



\* ---------------------------------------------------------------------
\* Claims about the vector-scalar operator
\* ---------------------------------------------------------------------

\* The steps Next of the vector-scalar operator was given and has returned.
BinSteps == IF BatchOf("binary") THEN DOMAIN FirstIn ELSE {}

\* The scalar of step v: the first sample of the step of o.scalar, or NaN.
ScalarOf(v) ==
    IF Len(last.in[2]) >= v /\ last.in[2][v].Samples # <<>> THEN last.in[2][v].Samples[1] ELSE NaN

\* The operands of sample i of step v, the scalar on its side.
OperandsOf(v, i) ==
    IF fn.scalarSide = "Left" THEN <<ScalarOf(v), FirstIn[v].Samples[i]>>
    ELSE <<FirstIn[v].Samples[i], ScalarOf(v)>>

\* What floatOp returns for sample i of step v.
FloatOpOf(v, i) == floatOp(fn.opType, OperandsOf(v, i), fn.operandValIdx, fn.bothScalars)

\* The values step v of the output holds for sample ID id.
EmittedFor(v, id) ==
    {last.res.batch[v].Samples[j] :
        j \in {k \in DOMAIN last.res.batch[v].SampleIDs : last.res.batch[v].SampleIDs[k] = id}}

\* C21: a comparison with the bool modifier and one scalar side returns for
\* every float sample of the input step one sample of the same ID, of value
\* 1 if the comparison holds and 0 if it does not; it drops none.
C21_BoolComparison ==
    (oper = "binary" /\ fn.returnBool /\ ~fn.bothScalars /\ fn.opType \in ComparisonOps) =>
        \A v \in BinSteps :
            /\ last.res.batch[v].SampleIDs = FirstIn[v].SampleIDs
            /\ \A i \in DOMAIN FirstIn[v].Samples :
                last.res.batch[v].Samples[i] =
                    IF FloatCompare(fn.opType, OperandsOf(v, i)[1], OperandsOf(v, i)[2])
                    THEN F(1) ELSE F(0)

\* A step of two samples, for one of which the comparison holds.
C21_Witness ==
    /\ oper = "binary" /\ fn.returnBool /\ ~fn.bothScalars
    /\ \E v \in BinSteps : last.res.batch[v].Samples = <<F(1), F(0)>>

C27_Filtered ==
    /\ oper = "binary" /\ ~fn.returnBool
    /\ \E v \in BinSteps : \E i \in DOMAIN FirstIn[v].Samples :
        ~FloatOpOf(v, i).keep /\ EmittedFor(v, FirstIn[v].SampleIDs[i]) = {}



\* ---------------------------------------------------------------------
\* Claims about operands of two types
\* ---------------------------------------------------------------------

\* Next of the vector operator has returned a batch and the kernel has put
\* the annotation on the warnings of the context.
Annotated == BatchOf("vector") /\ Incompatible \in last.warns

\* The histograms of the steps returned.
HistogramsOut ==
    UNION {{last.res.batch[v].Histograms[j] : j \in DOMAIN last.res.batch[v].Histograms} :
            v \in DOMAIN last.res.batch}

\* C22: operands of incompatible types are not fatal in the vector
\* operator.  When vectorElemBinop returns the annotation with keep = false
\* for a pair, Next returns its batch all the same, the annotation is among
\* the warnings, and the step holds no sample and no histogram for the pair.
C22_IncompatibleDropped ==
    /\ last.res.kind # Incompatible
    /\ Annotated => \A h \in HistogramsOut : ~h.nil

\* The annotation is not fatal: Next has returned a batch with it.
C22_NonFatal == last.res.kind # Incompatible

\* A histogram of the high-card side of step i has the signature of a row of
\* the low-card side of that step.
HcHistogramMatched(i) ==
    \E h \in Range(HcStep(i).HistogramIDs) : \E c \in Rows(LcStep(i)) :
        sigFunc(vec.q, HcSeries[h + 1]) = sigFunc(vec.q, LcSeries[c + 1])

\* The kernel was given a histogram of the high-card side in step i: its
\* result is in the step returned, or its annotation among the warnings.
HcHistogramEvaluated(i) ==
    OutStep(i).HistogramIDs # <<>> \/ Incompatible \in last.warns

\* C28: arithmetic of two vectors cuts a step short to the empty result only
\* when the high-card side has neither float samples nor histograms: in a
\* batch returned, a histogram of the high-card side whose signature a
\* low-card row of the step has is evaluated, also when the high-card side
\* has histograms only.
C28_ShortcutOnlyWhenEmpty ==
    (BatchOf("vector") /\ vec.q.opType \notin SetOps) =>
        \A i \in DOMAIN last.res.batch : HcHistogramMatched(i) => HcHistogramEvaluated(i)

\* The histograms are evaluated whenever the high-card side has a float
\* sample in the step too.
C28_WithHcSample ==
    (BatchOf("vector") /\ vec.q.opType \notin SetOps) =>
        \A i \in DOMAIN last.res.batch :
            (HcHistogramMatched(i) /\ HcStep(i).SampleIDs # <<>>) => HcHistogramEvaluated(i)

\* A step with a matched histogram and a float sample on the high-card side
\* was evaluated.
C28_SampleAndHistogram ==
    /\ BatchOf("vector") /\ vec.q.opType \notin SetOps
    /\ \E i \in DOMAIN last.res.batch :
        HcHistogramMatched(i) /\ HcStep(i).SampleIDs # <<>> /\ OutStep(i).HistogramIDs # <<>>



\* The signatures of the series of the high-card and of the low-card side.
HcSig(id) == sigFunc(vec.q, HcSeries[id + 1])
LcSig(id) == sigFunc(vec.q, LcSeries[id + 1])

\* The float value v is that of a high-card float sample and a low-card
\* float sample of step i that have one signature.
OfCurrentSamples(i, v) ==
    \E j \in DOMAIN HcStep(i).SampleIDs, k \in DOMAIN LcStep(i).SampleIDs :
        /\ HcSig(HcStep(i).SampleIDs[j]) = LcSig(LcStep(i).SampleIDs[k])
        /\ v = computeBinaryPairing(vec.q, HcStep(i).Samples[j], LcStep(i).Samples[k],
                                    NilHist, NilHist).f

\* The histogram h is that of a high-card histogram and a low-card histogram
\* of step i that have one signature.
OfCurrentHistograms(i, h) ==
    \E j \in DOMAIN HcStep(i).HistogramIDs, k \in DOMAIN LcStep(i).HistogramIDs :
        /\ HcSig(HcStep(i).HistogramIDs[j]) = LcSig(LcStep(i).HistogramIDs[k])
        /\ h = computeBinaryPairing(vec.q, F(0), F(0), HcStep(i).Histograms[j],
                                    LcStep(i).Histograms[k]).h

\* Next has returned a batch of an arithmetic operator without returnBool.
ArithBatch ==
    /\ BatchOf("vector") /\ vec.q.opType \in ArithmeticOps /\ ~vec.q.returnBool

\* C31: arithmetic of two vectors uses the operands of the current step
\* only.  Every float value emitted is computed from a high-card float
\* sample and a low-card float sample of the step with one signature, every
\* histogram emitted from a high-card and a low-card histogram of the step;
\* what an earlier step left in a join bucket is never used.
C31_CurrentStepOperands ==
    ArithBatch =>
        \A i \in DOMAIN last.res.batch :
            /\ \A k \in DOMAIN OutStep(i).Samples : OfCurrentSamples(i, OutStep(i).Samples[k])
            /\ \A k \in DOMAIN OutStep(i).Histograms :
                    OfCurrentHistograms(i, OutStep(i).Histograms[k])

\* The rows of the low-card side of step i that have the signature of a
\* high-card float sample are float samples, and those that have the
\* signature of a high-card histogram are histograms.
KindsAgree(i) ==
    /\ \A j \in Range(HcStep(i).SampleIDs), k \in Range(LcStep(i).HistogramIDs) :
            HcSig(j) # LcSig(k)
    /\ \A j \in Range(HcStep(i).HistogramIDs), k \in Range(LcStep(i).SampleIDs) :
            HcSig(j) # LcSig(k)

\* The operands are those of the current step wherever the rows paired are
\* of one kind.
C31_WhenKindsAgree ==
    ArithBatch =>
        \A i \in DOMAIN last.res.batch :
            KindsAgree(i) =>
                /\ \A k \in DOMAIN OutStep(i).Samples :
                        OfCurrentSamples(i, OutStep(i).Samples[k])
                /\ \A k \in DOMAIN OutStep(i).Histograms :
                        OfCurrentHistograms(i, OutStep(i).Histograms[k])

\* A value of the step before is used: the second step of the batch emits a
\* float computed from the low-card float sample of the first step.
C31_StaleValue ==
    /\ ArithBatch /\ Len(last.res.batch) = 2
    /\ LcStep(2).SampleIDs = <<>>
    /\ \E j \in DOMAIN HcStep(2).SampleIDs, k \in DOMAIN LcStep(1).SampleIDs :
        OutStep(2).Samples =
            <<computeBinaryPairing(vec.q, HcStep(2).Samples[j], LcStep(1).Samples[k],
                                   NilHist, NilHist).f>>

\* ---------------------------------------------------------------------
\* Claims about or, and about the labels joined in
\* ---------------------------------------------------------------------

\* The values of the rhs float samples of step i whose signature no lhs float
\* sample of step i has.
RhsAlone(i) ==
    {RhsStep(i).Samples[k] : k \in {k \in DOMAIN RhsStep(i).SampleIDs :
        \A j \in DOMAIN LhsStep(i).SampleIDs :
            LhsSig(LhsStep(i).SampleIDs[j]) # RhsSig(RhsStep(i).SampleIDs[k])}}

\* C25: or of two vectors.  In every step returned every float sample of
\* the lhs is emitted with its value, and a float sample of the rhs is
\* emitted if and only if no lhs sample of that same step has its
\* signature; nothing else is emitted.
C25_OrPerStep ==
    (BatchOf("vector") /\ vec.q.opType = "LOR") =>
        \A i \in DOMAIN last.res.batch :
            /\ Range(OutStep(i).Samples) = Range(LhsStep(i).Samples) \cup RhsAlone(i)
            /\ Len(OutStep(i).Samples) = Len(LhsStep(i).Samples) + Cardinality(RhsAlone(i))
            /\ Len(OutStep(i).SampleIDs) = Len(OutStep(i).Samples)

\* A batch of two steps: in the first a lhs sample suppresses the rhs sample
\* of its signature, in the second that rhs sample is emitted, the lhs
\* having no sample of the signature there.
C25_Witness ==
    /\ BatchOf("vector") /\ vec.q.opType = "LOR"
    /\ Len(last.res.batch) = 2
    /\ \E a \in IDs(child.lhs.series), b \in IDs(child.rhs.series) :
        /\ LhsSig(a) = RhsSig(b)
        /\ a \in Range(LhsStep(1).SampleIDs) /\ b \in Range(RhsStep(1).SampleIDs)
        /\ RowValue(child.rhs, b, 0) \notin Range(OutStep(1).Samples)
        /\ b \in Range(RhsStep(2).SampleIDs)
        /\ \A c \in Range(LhsStep(2).SampleIDs) : LhsSig(c) # RhsSig(b)
        /\ RowValue(child.rhs, b, 1) \in Range(OutStep(2).Samples)

\* The positions of the lhs samples of step i that have the signature of a
\* rhs sample of the step, in the order of the step.
Joined(i) ==
    SortedSeq({j \in DOMAIN LhsStep(i).SampleIDs :
        \E k \in DOMAIN RhsStep(i).SampleIDs :
            LhsSig(LhsStep(i).SampleIDs[j]) = RhsSig(RhsStep(i).SampleIDs[k])})

\* The labels of the lhs series without __name__, and y of the rhs series.
WithY(lhs, rhs) ==
    [n \in LabelNames |-> IF n = MetricName THEN "" ELSE IF n = "y" THEN rhs[n] ELSE lhs[n]]

\* The output sample k of step i is that of the k-th lhs sample joined: its
\* series has the labels of the lhs series without __name__ and y of the
\* rhs series, its value is the product.
JoinedSample(i, k) ==
    LET j == Joined(i)[k]
    IN /\ vec.series[OutStep(i).SampleIDs[k] + 1]
            = WithY(child.lhs.series[LhsStep(i).SampleIDs[j] + 1], child.rhs.series[1])
       /\ OutStep(i).Samples[k] = FMul(LhsStep(i).Samples[j], RhsStep(i).Samples[1])

\* Next of a * on(x) group_left(y) b has returned, the rhs having one series.
IncludePulled ==
    /\ oper = "vector" /\ last.method = "Next"
    /\ vec.q.card = "ManyToOne" /\ vec.q.include = {"y"}
    /\ Len(child.rhs.series) = 1

\* C24: a * on(x) group_left(y) b.  Every lhs series that has the signature
\* of the one rhs series yields an output series of its own, whose labels
\* are those of the lhs series without __name__ and y of the rhs series (no
\* y when the rhs has none), and whose value at each step is the lhs value
\* times the rhs value; several lhs series matching the rhs series raise no
\* error.
C24_GroupLeftInclude ==
    IncludePulled =>
        /\ last.res.kind \in {"batch", "eof"}
        /\ \A i \in DOMAIN last.res.batch :
            /\ Len(OutStep(i).SampleIDs) = Len(Joined(i))
            /\ \A k \in DOMAIN Joined(i) : JoinedSample(i, k)
            /\ \A k, l \in DOMAIN Joined(i) :
                    k # l => OutStep(i).SampleIDs[k] # OutStep(i).SampleIDs[l]

\* Labels and values are as said and no error is raised: two lhs series
\* have output series apart when their labels without __name__ and y differ.
C24_LabelsAndValues ==
    IncludePulled =>
        /\ last.res.kind \in {"batch", "eof"}
        /\ \A i \in DOMAIN last.res.batch :
            /\ Len(OutStep(i).SampleIDs) = Len(Joined(i))
            /\ \A k \in DOMAIN Joined(i) : JoinedSample(i, k)

\* Two lhs series joined in one step to the rhs series that has y.
C24_TwoJoined ==
    /\ IncludePulled /\ last.res.kind = "batch"
    /\ child.rhs.series[1]["y"] = "Y"
    /\ \E i \in DOMAIN last.res.batch :
        /\ Len(Joined(i)) = 2
        /\ vec.series[OutStep(i).SampleIDs[1] + 1] = Lbl("", "1", "Y")
        /\ vec.series[OutStep(i).SampleIDs[2] + 1] = [Lbl("", "1", "Y") EXCEPT !["q"] = "z"]
        /\ OutStep(i).SampleIDs = <<0, 1>>

\* ---------------------------------------------------------------------
\* Claims about the series of absent
\* ---------------------------------------------------------------------

\* The matchers of the selector absent is given, label matchers before
\* filters.
MatchersOf(funcExpr) == funcExpr.matchers \o funcExpr.filters

\* The first matcher of lm on the name that is an equality matcher, 0 when
\* there is none.
FirstEqual(lm, name) ==
    LET eq == {i \in DOMAIN lm : lm[i].name = name /\ lm[i].type = "="}
    IN IF eq = {} THEN 0 ELSE CHOOSE i \in eq : \A j \in eq : i <= j

\* The label set with name = value for the names other than __name__ whose
\* first equality matcher is followed by no matcher on the name.
LastWord(lm) ==
    [name \in LabelNames |->
        IF name = MetricName \/ FirstEqual(lm, name) = 0 THEN ""
        ELSE IF \E j \in DOMAIN lm : j > FirstEqual(lm, name) /\ lm[j].name = name THEN ""
        ELSE lm[FirstEqual(lm, name)].value]

\* C26: Series of absent returns exactly one label set.  Of a vector or
\* matrix selector it holds name = value for exactly the names other than
\* __name__ whose first equality matcher is followed by no further matcher
\* on the name, and never __name__; of any other argument it is empty.
C26_AbsentSeries ==
    (oper = "absent" /\ last.method = "Series") =>
        /\ last.res.kind = "series"
        /\ Len(last.res.series) = 1
        /\ last.res.series[1][MetricName] = ""
        /\ last.res.series[1] =
                IF fn.funcExpr.kind \in {"VectorSelector", "MatrixSelector"}
                THEN LastWord(MatchersOf(fn.funcExpr))
                ELSE EmptyLabels

\* Series of absent(a{x="1", x!="2", y="Y"}): y is in the label set and x is
\* not.
C26_Witness ==
    /\ oper = "absent" /\ last.method = "Series"
    /\ fn.funcExpr.kind = "VectorSelector"
    /\ \E i, j \in DOMAIN fn.funcExpr.matchers :
        /\ i < j
        /\ fn.funcExpr.matchers[i] = Matcher("x", "=", "1")
        /\ fn.funcExpr.matchers[j] = Matcher("x", "!=", "2")
    /\ last.res.series = <<Lbl("", "", "Y")>>

\* Series of absent(a{x!="2", x="1"}): a matcher before the first equality
\* matcher takes nothing away.
C26_EarlierMatcher ==
    /\ oper = "absent" /\ last.method = "Series"
    /\ fn.funcExpr.matchers[2] = Matcher("x", "!=", "2")
    /\ last.res.series = <<Lbl("", "1", "")>>

\* ---------------------------------------------------------------------
\* Claims about the telemetry
\* ---------------------------------------------------------------------

\* No call on the telemetry is in flight.
AddersDone == \A c \in Callers : run.calls[c].pc = "idle"

\* C23: the telemetry is safe under concurrent callers.  With
\* AddSeriesExecutionTime and AddNextExecutionTime called at one time on one
\* TrackedTelemetry no update is lost: afterwards SeriesTime, NextTime and
\* ExecutionTime are the sums of the times added.
C23_NoUpdateLost ==
    AddersDone =>
        /\ fn.SeriesTime = mir.series
        /\ fn.NextTime = mir.next
        /\ fn.ExecutionTime = mir.series + mir.next

\* SeriesTime and NextTime, each added to by one caller, lose nothing.
C23_OwnTimesKept ==
    AddersDone => (fn.SeriesTime = mir.series /\ fn.NextTime = mir.next)

\* C30: after any sequence of AddSeriesExecutionTime and
\* AddNextExecutionTime calls ExecutionTimeTaken() is SeriesExecutionTime()
\* plus NextExecutionTime(); of the noop telemetry all three are 0 after any
\* calls, MaxSeriesCount() is 0 also after SetMaxSeriesCount, and Samples()
\* is nil.
C30_TelemetryInvariant ==
    oper = "telemetry" =>
        /\ ExecutionTimeTaken(fn) = SeriesExecutionTime(fn) + NextExecutionTime(fn)
        /\ fn.kind = "tracked" =>
            /\ SeriesExecutionTime(fn) = mir.series
            /\ NextExecutionTime(fn) = mir.next
        /\ fn.kind = "noop" =>
            /\ ExecutionTimeTaken(fn) = 0
            /\ SeriesExecutionTime(fn) = 0
            /\ NextExecutionTime(fn) = 0
            /\ MaxSeriesCount(fn) = 0
            /\ Samples(fn) = "nil"

\* The tracked telemetry after times were added to both.
C30_Witness ==
    /\ oper = "telemetry" /\ fn.kind = "tracked"
    /\ SeriesExecutionTime(fn) > 0 /\ NextExecutionTime(fn) > 0
    /\ ExecutionTimeTaken(fn) = MaxTime

\* The noop telemetry after SetMaxSeriesCount of a count that is not 0 and
\* times added.
C30_NoopWitness ==
    /\ oper = "telemetry" /\ fn.kind = "noop"
    /\ last.method = "SetMaxSeriesCount" /\ last.in > 0
    /\ mir.series > 0 /\ mir.next > 0 /\ mir.samples > 0


=============================================================================
